---- MODULE Spec2Model ----
(***************************************************************************)
(* A model of swell-node's socket client: lib/connection.js (Connection),  *)
(* lib/client.js (Client) and lib/cache.js (Cache).                        *)
(*                                                                         *)
(* The program is single-threaded and event driven: every action below is  *)
(* one complete run of a handler (a socket event, a user call), including  *)
(* every callback the handler invokes synchronously.  Handlers are written *)
(* as operators from a state record to a state record, so that a handler   *)
(* that calls another one is the composition of the two operators.         *)
(***************************************************************************)
EXTENDS Integers, Sequences, FiniteSets, TLC

\* ------------------------------------------------------------------ bounds
MaxRequests == 3     \* requests issued by the caller over a behaviour
MaxLines == 3        \* non-push lines received from one socket
MaxSockets == 2      \* sockets opened over a behaviour
MaxK == 1            \* maxConcurrent is configured in 1..MaxK
MaxVersion == 2      \* collection versions are 1..MaxVersion
MaxIndexLimit == 2   \* the cache's indexLimit is configured in 1..MaxIndexLimit
MaxChunk == 2        \* a chunk passed to receive() has at most MaxChunk characters
MaxStream == 4       \* the socket delivers at most MaxStream characters
MaxEntries == 3      \* paths written in the shared storage at a time
MaxInstances == 3    \* cache stores created over a behaviour

VARIABLES
  \* Connection fields (lib/connection.js:65-103)
  stream,            \* this.stream: 0 is null, n > 0 is the n-th socket created
  ready,             \* this.ready
  connected,         \* this.connected
  requestBuffer,     \* this.requestBuffer
  pendingBuffer,     \* this.pendingBuffer
  requested,         \* this.requested
  requestCallbacks,  \* this.requestCallbacks: $req_id -> callback
  maxConcurrent,     \* this.maxConcurrent
  \* Client fields (lib/client.js:37-63)
  client,            \* TRUE when the Connection belongs to a Client
  authed,            \* this.authed
  authRequested,     \* this.authRequested
  sentVersions,      \* this.sentVersions
  cache,             \* this.cache is set
  \* the CacheStore of the client's Cache, and the Cache's indexLimit
  results,           \* cache key -> the stored result
  versions,          \* the stored 'versions' object: collection -> version
  indexes,           \* the stored 'index' object: collection -> cache keys,
                     \* in the order Object.keys() lists them
  indexLimit,        \* this.params.indexLimit
  \* the environment
  nextSocket,        \* number of the next socket proto.connect() returns
  nextReq,           \* number of the next request the caller issues
  wire,              \* the requests written to the current socket that the
                     \* server has not answered, in the order written
  received,          \* number of non-push lines received from the current socket
  authorized,        \* a response to an authorization request has been
                     \* received from the current socket
  lastClose,         \* how the last socket ended: "drop" is its 'close'
                     \* event, "end" a response with $end; "none" at first
  \* what the caller observes
  calls,             \* the callback invocations of the last step: <<[cb, resp]>>
  invoked,           \* ids of the requests whose callback has been invoked
  held,              \* ids of the requests request() has put in pendingBuffer
  moved,             \* ids of the requests close() has moved to pendingBuffer
  purged,            \* cache keys whose stored result the last step removed
  connectingTimeout,  \* this.connectingTimeout: the final timeout is pending
  retryTimers,       \* number of pending retry timeouts (connect() starts one)
  onPushSet,         \* this.options.onPush is configured
  requestsPendingAuth,  \* this.requestsPendingAuth of the Client
  jobs,              \* number of promise reactions (microtasks) that call
                     \* flushRequestsPendingAuth and have still to run
  promises,          \* caller's call -> how the promise it was returned settled
  replayed,          \* the gets that were deferred and called again since,
                     \* in the order of these calls
  emitted,           \* the events the Connection emitted in the last step
  synced,            \* sentVersions was set while the socket it is about was up
  cachedWritten,     \* number of `cached` requests written to the current socket
  issued,            \* the calls the caller has made: id -> the data argument
                     \* and the wrappers put around its callback
  connecting,        \* the sockets proto.connect() has returned whose
                     \* connect callback can still run
  \* what lies outside the handlers of Connection, Client and Cache
  connection,        \* this.connection of the Client is set
  buffer,            \* this.buffer of the Connection: the pieces of an
                     \* incomplete line
  lines,             \* the texts receive() has handed to receiveResponse
  chunks,            \* the chunks the socket has passed to receive()
  awaited,           \* call -> the promises its data holds: how each stands
  handed,            \* call -> the data of each request made for it when
                     \* its promises had settled
  memory,            \* SharedMemoryStorage.memory: path -> what is stored
  instances,         \* the cache stores created: the MemoryStore each uses
  stores,            \* the MemoryStore objects created: key -> value
  storeInstance      \* SharedMemoryStore.storeInstance: 0 is undefined

vars == <<stream, ready, connected, requestBuffer, pendingBuffer, requested,
          requestCallbacks, maxConcurrent, client, authed, authRequested,
          sentVersions, cache, results, versions, indexes, indexLimit,
          nextSocket, nextReq, wire, received, authorized, lastClose,
          calls, invoked, held, moved, purged, connectingTimeout,
          retryTimers, onPushSet, requestsPendingAuth, jobs, promises,
          replayed, emitted, synced, cachedWritten, issued, connecting,
          connection, buffer, lines, chunks, awaited, handed, memory,
          instances, stores, storeInstance>>

\* The variables of the record the handlers below work on, and the ones that
\* are not part of it: the actions that model their handlers assign them
\* directly.
record == <<stream, ready, connected, requestBuffer, pendingBuffer, requested,
            requestCallbacks, maxConcurrent, client, authed, authRequested,
            sentVersions, cache, results, versions, indexes, indexLimit,
            nextSocket, nextReq, wire, received, authorized, lastClose,
            calls, invoked, held, moved, purged, connectingTimeout,
            retryTimers, onPushSet, requestsPendingAuth, jobs, promises,
            replayed, emitted, synced, cachedWritten, issued, connecting>>
inbound == <<buffer, lines, chunks>>
promised == <<awaited, handed>>
storage == <<memory, instances, stores, storeInstance>>
others == <<connection, inbound, promised, storage>>

\* The variables as one record, the argument and result of every handler.
St ==
  [stream |-> stream, ready |-> ready, connected |-> connected,
   requestBuffer |-> requestBuffer, pendingBuffer |-> pendingBuffer,
   requested |-> requested, requestCallbacks |-> requestCallbacks,
   maxConcurrent |-> maxConcurrent, client |-> client, authed |-> authed,
   authRequested |-> authRequested, sentVersions |-> sentVersions,
   cache |-> cache, results |-> results, versions |-> versions,
   indexes |-> indexes, indexLimit |-> indexLimit, nextSocket |-> nextSocket,
   nextReq |-> nextReq, wire |-> wire, received |-> received,
   authorized |-> authorized, lastClose |-> lastClose,
   calls |-> calls, invoked |-> invoked, held |-> held, moved |-> moved,
   purged |-> purged, connectingTimeout |-> connectingTimeout,
   retryTimers |-> retryTimers, onPushSet |-> onPushSet,
   requestsPendingAuth |-> requestsPendingAuth, jobs |-> jobs,
   promises |-> promises, replayed |-> replayed, emitted |-> emitted, synced |-> synced,
   cachedWritten |-> cachedWritten, issued |-> issued,
   connecting |-> connecting]

\* The state a handler starts from: calls, purged and emitted hold the calls,
\* the removals and the events of this step only.
Begin == [St EXCEPT !.calls = <<>>, !.purged = {}, !.emitted = <<>>]

\* The state a handler ends in becomes the next state.
Assign(t) ==
  \E r \in {t} :
    /\ stream' = r.stream
    /\ ready' = r.ready
    /\ connected' = r.connected
    /\ requestBuffer' = r.requestBuffer
    /\ pendingBuffer' = r.pendingBuffer
    /\ requested' = r.requested
    /\ requestCallbacks' = r.requestCallbacks
    /\ maxConcurrent' = r.maxConcurrent
    /\ client' = r.client
    /\ authed' = r.authed
    /\ authRequested' = r.authRequested
    /\ sentVersions' = r.sentVersions
    /\ cache' = r.cache
    /\ results' = r.results
    /\ versions' = r.versions
    /\ indexes' = r.indexes
    /\ indexLimit' = r.indexLimit
    /\ nextSocket' = r.nextSocket
    /\ nextReq' = r.nextReq
    /\ wire' = r.wire
    /\ received' = r.received
    /\ authorized' = r.authorized
    /\ lastClose' = r.lastClose
    /\ calls' = r.calls
    /\ invoked' = r.invoked
    /\ held' = r.held
    /\ moved' = r.moved
    /\ purged' = r.purged
    /\ connectingTimeout' = r.connectingTimeout
    /\ retryTimers' = r.retryTimers
    /\ onPushSet' = r.onPushSet
    /\ requestsPendingAuth' = r.requestsPendingAuth
    /\ jobs' = r.jobs
    /\ promises' = r.promises
    /\ replayed' = r.replayed
    /\ emitted' = r.emitted
    /\ synced' = r.synced
    /\ cachedWritten' = r.cachedWritten
    /\ issued' = r.issued
    /\ connecting' = r.connecting

\* A step that is one run of a handler.
Commit(t) == Assign(t) /\ UNCHANGED others

\* ------------------------------------------------------------ values
NoStream == 0
NoId == 0

\* A callback: the trailing argument of Connection.request.  "undefined" is a
\* request issued without one; "user" is an opaque function of the caller.
Undefined == [kind |-> "undefined", id |-> 0]
UserCallback(n) == [kind |-> "user", id |-> n]

\* The args array of Connection.request(...args): args[0] is the method, creds
\* says whether the data argument holds $client and $key, req_id is data.$req_id
\* (NoId when absent), callback is the last element.  id is the identity of the
\* array (the n-th request the caller issued).
Request(n, method, creds, withId, cb) ==
  [id |-> n, method |-> method, creds |-> creds,
   req_id |-> IF withId THEN n ELSE NoId, callback |-> cb]

\* result.$collection === undefined
NoCollection == "undefined"

\* A payload ($data) is a number: undefined, null, or a value 1, 2, ...
NoData == 0 - 1
Null == 0

\* result.$cached: undefined, or an object collection -> version.
NoCached == [defined |-> FALSE, of |-> [c \in {} |-> 0]]
Cached(f) == [defined |-> TRUE, of |-> f]

\* A line received from the socket.  object is FALSE for a line that is not
\* valid JSON or does not parse to an object; push, req_id, error, end and
\* auth are $push, $req_id, $error, $end and $auth; data is the payload
\* ($data); collection, expanded and cached are the cache headers
\* $collection, $expanded and $cached.  The same record is the response a
\* callback receives; status is $status, and raw is the text of the invalid
\* line that the $error of receiveResponse's own response quotes.
Line(push, object, req_id, error, end, data) ==
  [push |-> push, object |-> object, req_id |-> req_id, error |-> error,
   end |-> end, data |-> data, status |-> IF error = "" THEN 200 ELSE 400,
   auth |-> FALSE, collection |-> NoCollection, expanded |-> <<>>,
   cached |-> NoCached, raw |-> NoData]

\* {$status: 500, $error: 'Invalid response from server (...)'}
\* (lib/connection.js:309-316)
ProtocolError ==
  [Line(FALSE, TRUE, NoId, "protocol", FALSE, NoData) EXCEPT !.status = 500]

\* The same, for the invalid line it quotes.
InvalidResponse(line) == [ProtocolError EXCEPT !.raw = line.data]

\* {$status: 500, $error: `Connection timed out (${timeoutMs} ms)`}
\* (lib/connection.js:162-164, 462-465)
TimeoutError ==
  [Line(FALSE, TRUE, NoId, "timeout", FALSE, NoData) EXCEPT !.status = 500]

\* The function given as options.onPush to a Connection used directly.
PushHandler == [kind |-> "push", id |-> 0]

\* this.emit(event)
emit(s, event) == [s EXCEPT !.emitted = Append(@, event)]

\* this.requestsPendingAuth: null, or the gets that wait for the
\* authorization (lib/client.js:53, 369-374).
NoPending == [defined |-> FALSE, of |-> <<>>]
Pending(q) == [defined |-> TRUE, of |-> q]

NoCallbacks == [r \in {} |-> Undefined]

\* ------------------------------------------------------------------ Cache
\* lib/cache.js.  One Cache (one clientId, one env): getPath() maps a cache
\* key, 'versions' and 'index' to distinct paths of the CacheStore, which
\* results, versions and indexes hold.  getCache()/writeCache() convert
\* through JSON, which gives back the records stored here as they were.

\* The collections of the model: the one the code singles out, and one more
\* whose name ends in `.settings`.
Collections == {"api.settings", "admin.settings"}

\* String(verCollection).match(/\.settings$/)
endsInSettings(c) == c \in {"api.settings", "admin.settings"}

\* The data argument of get/put: undefined, or a query object.
NoArg == "undefined"

\* A data argument that holds $nocache.
NoCache == "nocache"

\* data?.$nocache === undefined (lib/client.js:349)
isRequestCacheable(data) == data # NoCache

Range(q) == {q[i] : i \in DOMAIN q}

has(f, x) == x \in DOMAIN f

set(f, x, v) == [y \in (DOMAIN f) \cup {x} |-> IF y = x THEN v ELSE f[y]]

RECURSIVE trimStart(_)
trimStart(url) ==
  IF url # <<>> /\ Head(url) = " " THEN trimStart(Tail(url)) ELSE url

RECURSIVE trimEnd(_)
trimEnd(url) ==
  IF url # <<>> /\ url[Len(url)] = " "
  THEN trimEnd(SubSeq(url, 1, Len(url) - 1)) ELSE url

\* String(url).trim().replace(/^\/|\/$/g, ''); a url is a sequence of
\* characters.
saneUrl(url) ==
  LET t == trimEnd(trimStart(url))
      a == IF t # <<>> /\ Head(t) = "/" THEN Tail(t) ELSE t
  IN IF a # <<>> /\ a[Len(a)] = "/" THEN SubSeq(a, 1, Len(a) - 1) ELSE a

\* getKey(url, data): the md5 of JSON.stringify([saneUrl, data || null]) is
\* modelled by the pair it digests.
getKey(url, data) == <<saneUrl(url), IF data = NoArg THEN "null" ELSE data>>

\* invalid[collection] of clearIndexes: true, or one cache key.
Whole == [all |-> TRUE, key |-> <<>>]
Single(key) == [all |-> FALSE, key |-> key]

\* What writeCache stores for put(): the result's keys with $cached: true.
cacheContent(result) ==
  [data |-> result.data, collection |-> result.collection,
   expanded |-> result.expanded, cached |-> TRUE]

\* null, as get() returns it.
Miss ==
  [data |-> NoData, collection |-> NoCollection, expanded |-> <<>>,
   cached |-> FALSE]

RECURSIVE pushNew(_, _)
pushNew(collections, expanded) ==
  IF expanded = <<>> THEN collections
  ELSE pushNew(IF Head(expanded) \in Range(collections) THEN collections
               ELSE Append(collections, Head(expanded)),
               Tail(expanded))

\* resultCollections(result)
resultCollections(result) ==
  pushNew(IF result.collection # NoCollection THEN <<result.collection>>
          ELSE <<>>,
          result.expanded)

\* getVersions()
getVersions(s) == s.versions

\* A clearIndexes that removes nothing.
clearNoIndexes(s, invalid) == s

\* clearIndexes(invalid)
clearIndexes(s, invalid) ==
  IF DOMAIN invalid = {} THEN s
  ELSE LET gone(c) ==
             IF ~has(invalid, c) \/ ~has(s.indexes, c) THEN {}
             ELSE IF invalid[c].all THEN Range(s.indexes[c])
             ELSE {invalid[c].key} \cap Range(s.indexes[c])
           kept(c) ==
             LET stays(k) == k \notin gone(c)
             IN SelectSeq(s.indexes[c], stays)
           removed == UNION {gone(c) : c \in DOMAIN s.indexes}
       IN [s EXCEPT
             !.results = [k \in (DOMAIN @) \ removed |-> @[k]],
             !.indexes = [c \in DOMAIN @ |-> kept(c)],
             !.purged = @ \cup removed]

\* A truncateIndex that ejects nothing.
truncateNoIndex(s, collection) == s

\* truncateIndex(collection): the key it ejects is the last one listed.
truncateIndex(s, collection) ==
  IF ~has(s.indexes, collection) \/ s.indexes[collection] = <<>> THEN s
  ELSE LET keys == s.indexes[collection]
       IN clearIndexes(s, [c \in {collection} |-> Single(keys[Len(keys)])])

\* putIndex(collection, key, size)
putIndex(s, collection, key) ==
  LET s1 == IF /\ has(s.indexes, collection)
               /\ Len(s.indexes[collection]) >= s.indexLimit
            THEN truncateIndex(s, collection) ELSE s
      keys == IF has(s1.indexes, collection) THEN s1.indexes[collection]
              ELSE <<>>
  IN [s1 EXCEPT !.indexes =
        set(@, collection,
            IF key \in Range(keys) THEN keys ELSE Append(keys, key))]

\* putVersion(collection, version); a version that is falsy is not stored.
putVersion(s, collection, version) ==
  IF version = 0 THEN s
  ELSE [s EXCEPT !.versions = set(@, collection, version)]

RECURSIVE putCollections(_, _, _, _)
\* The loop of put() over resultCollections(result).
putCollections(s, collections, key, cached) ==
  IF collections = <<>> THEN s
  ELSE LET c == Head(collections)
           s1 == IF ~has(cached, c) /\ ~has(s.versions, c) THEN s
                 ELSE LET s2 == putIndex(s, c, key)
                      IN IF has(cached, c) THEN putVersion(s2, c, cached[c])
                         ELSE s2
       IN putCollections(s1, Tail(collections), key, cached)

\* put(url, data, result)
put(s, url, data, result) ==
  LET r == IF result.data = NoData THEN [result EXCEPT !.data = Null]
           ELSE result
      key == getKey(url, data)
      s1 == [s EXCEPT !.results = set(@, key, cacheContent(r))]
  IN IF r.cached.defined
     THEN putCollections(s1, resultCollections(r), key, r.cached.of)
     ELSE s1

RECURSIVE putVersions(_, _, _)
\* putVersion for each collection of a set.
putVersions(s, collections, cached) ==
  IF collections = {} THEN s
  ELSE LET c == CHOOSE x \in collections : TRUE
       IN putVersions(putVersion(s, c, cached[c]), collections \ {c}, cached)

\* A clear that takes every collection the result names for invalid,
\* whatever its version.
clearAllNamed(s, result) ==
  IF ~result.cached.defined THEN s
  ELSE LET cached == result.cached.of
           s1 == putVersions(s, DOMAIN cached, cached)
       IN IF DOMAIN cached = {} THEN s1
          ELSE clearIndexes(s1, [c \in DOMAIN cached |-> Whole])

\* A clear without the rule for admin.settings.
clearNamedOnly(s, result) ==
  IF ~result.cached.defined THEN s
  ELSE LET cached == result.cached.of
           changed == {c \in DOMAIN cached :
                         ~has(s.versions, c) \/ cached[c] # s.versions[c]}
           s1 == putVersions(s, changed, cached)
       IN IF changed = {} THEN s1
          ELSE clearIndexes(s1, [c \in changed |-> Whole])

\* clear(result).  The collections whose version the result changes are
\* invalid; when admin.settings is one of them, so is every collection of
\* this.versions whose name ends in .settings.
clear(s, result) ==
  IF ~result.cached.defined THEN s
  ELSE LET cached == result.cached.of
           changed == {c \in DOMAIN cached :
                         ~has(s.versions, c) \/ cached[c] # s.versions[c]}
           s1 == putVersions(s, changed, cached)
           invalid ==
             changed \cup
               (IF "admin.settings" \in changed
                THEN {c \in DOMAIN s1.versions : endsInSettings(c)} ELSE {})
       IN IF invalid = {} THEN s1
          ELSE clearIndexes(s1, [c \in invalid |-> Whole])

\* get(url, data) finds the result in the index of its $collection.
found(s, key) ==
  /\ has(s.results, key)
  /\ s.results[key].collection # NoCollection
  /\ has(s.indexes, s.results[key].collection)
  /\ key \in Range(s.indexes[s.results[key].collection])

\* What get(url, data) returns.
getResult(s, url, data) ==
  IF found(s, getKey(url, data)) THEN s.results[getKey(url, data)] ELSE Miss

RECURSIVE clearEach(_, _, _)
\* The loop of get() over the collections of a result that is not found.
clearEach(s, collections, key) ==
  IF collections = <<>> THEN s
  ELSE clearEach(clearIndexes(s, [c \in {Head(collections)} |-> Single(key)]),
                 Tail(collections), key)

\* The test of Client.get on cache.get(url, data): a result with $data is
\* given to the caller and no request is made (lib/client.js:351-362).
answersFromCache(s, url, data) ==
  /\ s.cache
  /\ s.sentVersions
  /\ isRequestCacheable(data)
  /\ getResult(s, url, data) # Miss

\* get(url, data): the state it leaves.
get(s, url, data) ==
  LET key == getKey(url, data)
  IN IF ~has(s.results, key) \/ found(s, key) THEN s
     ELSE clearEach(s, resultCollections(s.results[key]), key)

\* ------------------------------------------------- Connection: primitives

\* case 'auth': case 'cached': (lib/connection.js:180-185)
isService(args) == args.method \in {"auth", "cached"}

\* data.$client && data.$key
hasRequestAuthData(args) == args.creds

isBufferNotEmpty(s) ==
  Len(s.requestBuffer) > 0 \/ Len(s.pendingBuffer) > 0

\* connect(): the synchronous part.  proto.connect() returns a new socket.
\* Nothing has been written to it or received from it.
connect(s) ==
  [s EXCEPT !.ready = FALSE,
            !.stream = s.nextSocket,
            !.nextSocket = @ + 1,
            !.wire = <<>>,
            !.received = 0,
            !.authorized = FALSE,
            !.synced = FALSE,
            !.cachedWritten = 0,
            !.retryTimers = @ + 1,
            !.connectingTimeout = TRUE,
            !.connecting = @ \cup {s.nextSocket}]

\* The guard of requestNext: it returns early only when requested is ABOVE
\* maxConcurrent.
overLimit(s) == s.requested > s.maxConcurrent

\* requestNext(): writes at most one request, the one at index `requested`.
requestNext(s) ==
  IF overLimit(s) THEN s
  ELSE IF s.requested >= 0 /\ Len(s.requestBuffer) > s.requested
  THEN LET args == s.requestBuffer[s.requested + 1]
       IN [s EXCEPT
             !.requestCallbacks =
                IF args.req_id # NoId
                THEN [r \in (DOMAIN @) \cup {args.req_id} |->
                        IF r = args.req_id THEN args.callback ELSE @[r]]
                ELSE @,
             !.wire = Append(@, args),
             !.cachedWritten = IF args.method = "cached" THEN @ + 1 ELSE @,
             !.requested = @ + 1]
  ELSE s

\* request() with the routing test dropped: every request goes to requestBuffer.
toActiveUnconditionally(s, args) == TRUE

\* The routing test of request(): requestBuffer (TRUE) or pendingBuffer.
toActive(s, args) == isService(args) \/ s.ready \/ hasRequestAuthData(args)

\* request(): the switch that pushes args on one of the two buffers.
push(s, args) ==
  IF toActive(s, args)
  THEN [s EXCEPT !.requestBuffer = Append(@, args)]
  ELSE [s EXCEPT !.pendingBuffer = Append(@, args),
                 !.held = @ \cup {args.id}]

\* request(): what follows the switch.
afterPush(s) ==
  IF ~s.connected THEN s
  ELSE IF s.stream = NoStream THEN connect(s)
  ELSE requestNext(s)

\* request(...args)
request(s, args) == afterPush(push(s, args))

RECURSIVE requestEach(_, _)
\* for (const request of requestBuffer) this.request(...request)
requestEach(s, q) ==
  IF q = <<>> THEN s ELSE requestEach(request(s, Head(q)), Tail(q))

\* flushRequestBuffer()
flushRequestBuffer(s) ==
  IF ~s.connected THEN s
  ELSE requestEach([s EXCEPT !.requestBuffer = <<>>, !.requested = 0],
                   s.requestBuffer)

\* flushPendingBuffer()
flushPendingBuffer(s) ==
  IF ~s.connected THEN s
  ELSE requestEach([s EXCEPT !.pendingBuffer = <<>>, !.ready = TRUE],
                   s.pendingBuffer)

RECURSIVE nonService(_)
\* requestBuffer.filter(request => request[0] !== 'auth' && request[0] !== 'cached')
nonService(q) ==
  IF q = <<>> THEN <<>>
  ELSE IF isService(Head(q)) THEN nonService(Tail(q))
  ELSE <<Head(q)>> \o nonService(Tail(q))

\* ---------------------------------------------------------------- Client
\* lib/client.js.  The Client is the owner of its Connection: it listens to
\* 'auth.require' and 'close', handles pushes, and passes its own callbacks
\* to Connection.request.  A Connection used directly has no owner (client
\* is FALSE) and the callbacks of its caller.
\* Promise reactions (microtasks) run when the handler that queued them has
\* returned: at the end of the step.

\* What runs once an authorization and the version sync are done: nothing
\* (`() => {}`), flushRequestsPendingAuth() and respond(method, url, params,
\* response, responder) for the n-th call of the caller (lib/client.js:
\* 250-253), or this.get(url, data, ...) for the get that started the
\* authorization (lib/client.js:377-393).
NoThen == [kind |-> "none", id |-> 0]
RespondThen(n, method, url, data) ==
  [kind |-> "respond", id |-> n, method |-> method, url |-> url, data |-> data]
GetThen(n, url, data) ==
  [kind |-> "get", id |-> n, method |-> "get", url |-> url, data |-> data]

\* The callback Client.request passes to the Connection for the n-th call of
\* the caller (lib/client.js:242-262).
RequestCallback(n, method, url, data) ==
  [kind |-> "request", id |-> n, method |-> method, url |-> url, data |-> data]

\* The callback of auth() and authWithKey() (lib/client.js:515-520, 553-558).
AuthCallback(then) == [kind |-> "auth", id |-> 0, then |-> then]

\* The callback of sendCachedVersions() (lib/client.js:583-589); response is
\* the authorization response its continuation passes on.
CachedCallback(then, response) ==
  [kind |-> "cached", id |-> 0, then |-> then, response |-> response]

\* How a promise settles: resolve(data), reject(error) with an Error that has
\* message and status (lib/client.js:232-236), or reject(err) with the $error
\* string itself (lib/client.js:383-386).
Resolved(data) ==
  [state |-> "resolved", data |-> data, message |-> "", status |-> 0,
   error |-> FALSE]
Rejected(message, status) ==
  [state |-> "rejected", data |-> NoData, message |-> message,
   status |-> status, error |-> TRUE]
RejectedWith(message) ==
  [state |-> "rejected", data |-> NoData, message |-> message, status |-> 0,
   error |-> FALSE]

\* A call of the caller: its data argument, and the wrappers the Client has
\* put around its callback since, innermost first.  "first" is the callback
\* getPendingAuth gives to this.get for the get that starts the authorization
\* (lib/client.js:378-389), "queued" the one flushRequestsPendingAuth gives it
\* for a get of requestsPendingAuth (lib/client.js:408-413); the promise the
\* caller holds is the one the innermost wrapper settles.  "lost" says that
\* the promise the caller holds belongs to a request that was given up for a
\* new one (lib/client.js:246); again says that the request of the call was
\* made again.
Call(data) == [data |-> data, wraps |-> <<>>, again |-> FALSE]

wrapsOf(s, n) == IF n \in DOMAIN s.issued THEN s.issued[n].wraps ELSE <<>>

wrap(s, n, kind) == [s EXCEPT !.issued[n].wraps = Append(@, kind)]

\* $cached: true of a result the cache returns (lib/cache.js:127).
CachedTrue == Cached([c \in {"true"} |-> 1])

\* The result cache.get() returns, as the (err, data, response) of a callback:
\* it has no $status.
CacheAnswer(result) ==
  [Line(FALSE, TRUE, NoId, "", FALSE, result.data) EXCEPT
     !.status = 0, !.collection = result.collection,
     !.expanded = result.expanded, !.cached = CachedTrue]

\* {$error: 'Empty response from server', $status: 500} (lib/client.js:316)
EmptyResponse ==
  [Line(FALSE, TRUE, NoId, "empty", FALSE, NoData) EXCEPT !.status = 500]

\* respond() called without a response.
NoResponse == [Line(FALSE, FALSE, NoId, "", FALSE, NoData) EXCEPT !.status = 0]

\* A wrapper resolves its promise: "queued" always, "first" unless err.
resolves(kind, response) ==
  kind = "queued" \/ (kind = "first" /\ response.error = "")

\* How the promise the caller holds settles when the callback chain of the
\* call runs with response: by the responder of Client.request
\* (lib/client.js:227-240) or the cache hit of get (lib/client.js:354-359)
\* when there is no wrapper, by the innermost wrapper otherwise.
outcome(wraps, response) ==
  IF wraps = <<>>
  THEN IF response.error # "" THEN Rejected(response.error, response.status)
       ELSE Resolved(response.data)
  ELSE IF wraps[1] = "first"
  THEN IF response.error # "" THEN RejectedWith(response.error)
       ELSE Resolved(response.data)
  ELSE Resolved(IF response.error # "" THEN NoData ELSE response.data)

\* resolve(), reject(): a settled promise stays as it is.  Only a call made
\* through request or get has a promise.
settle(s, n, result) ==
  IF n \notin DOMAIN s.issued \/ n \in DOMAIN s.promises THEN s
  ELSE [s EXCEPT !.promises = set(@, n, result)]

\* callback(err, data, response) of the caller's n-th call.
called(s, n, response) ==
  [s EXCEPT !.calls = Append(@, [cb |-> [kind |-> "caller", id |-> n],
                                 resp |-> response]),
            !.invoked = @ \cup {n}]

\* The wrappers settle their promises; each one that resolves queues the
\* reaction of getPendingAuth (lib/client.js:394-397).
react(s, n, wraps, response) ==
  [IF wraps # <<>> /\ wraps[1] = "lost" THEN s
   ELSE settle(s, n, outcome(wraps, response))
   EXCEPT !.jobs = @ + Cardinality({i \in DOMAIN wraps :
                                      resolves(wraps[i], response)})]

\* callback.call(this, err, responseData, response): the n-th call of the
\* caller receives its outcome, through the wrappers around its callback.
deliver(s, n, response) ==
  react(called(s, n, response), n, wrapsOf(s, n), response)

\* respond(method, url, request, response, callback)
respond(s, method, url, data, response, n) ==
  IF response = NoResponse THEN deliver(s, n, EmptyResponse)
  ELSE IF response.error # "" \/ ~s.cache THEN deliver(s, n, response)
  ELSE IF method = "get"
  THEN deliver(put(clear(s, response), url, data, response), n,
               IF response.data = NoData
               THEN [response EXCEPT !.data = Null] ELSE response)
  ELSE deliver(clear(s, response), n, response)

\* authWithKey(callback): the creds hold `client` and `key`, not $client and
\* $key, and a $req_id.
authWithKey(s, then) ==
  request([s EXCEPT !.authRequested = TRUE, !.nextReq = @ + 1],
          Request(s.nextReq, "auth", FALSE, TRUE, AuthCallback(then)))

\* auth(nonce, callback) with a nonce: the creds hold no $req_id.
auth(s, then) ==
  request([s EXCEPT !.authRequested = TRUE, !.nextReq = @ + 1],
          Request(s.nextReq, "auth", FALSE, FALSE, AuthCallback(then)))

\* Client.request(method, url, data, callback) for the n-th call of the
\* caller: the Cache is created on first use, the params carry a $req_id,
\* and $client and $key when the client is not authed.
clientRequest(s, method, url, data, n) ==
  request([s EXCEPT !.cache = TRUE, !.nextReq = @ + 1],
          Request(s.nextReq, method, ~s.authed, TRUE,
                  RequestCallback(n, method, url, data)))

\* Client.request with data that holds a promise (lib/client.js:190-196):
\* the promise it returns is Promise.all(promises).then(...), whose reaction
\* calls this.request and returns nothing.  The promise of the data has
\* resolved when the call is made.
clientRequestPromised(s, method, url, data, n) ==
  settle(clientRequest(s, method, url, data, n), n, Resolved(NoData))

\* `return this.request(method, url, params.$data, callback)`
\* (lib/client.js:246): the new request has the callback, and a promise of
\* its own.
resubmit(s, method, url, data, n) ==
  clientRequest(IF s.issued[n].wraps = <<>>
                THEN [wrap(s, n, "lost") EXCEPT !.issued[n].again = TRUE]
                ELSE [s EXCEPT !.issued[n].again = TRUE],
                method, url, data, n)

\* getPendingAuth(url, data, callback)
getPendingAuth(s, url, data, n) ==
  IF s.requestsPendingAuth.defined
  THEN [wrap(s, n, "queued") EXCEPT
          !.requestsPendingAuth.of =
             Append(@, [id |-> n, url |-> url, data |-> data])]
  ELSE authWithKey([wrap(s, n, "first") EXCEPT
                      !.requestsPendingAuth = Pending(<<>>)],
                   GetThen(n, url, data))

\* cache.get(url, data) as Client.get calls it (lib/client.js:351-352).
lookup(s, url, data) ==
  IF s.sentVersions /\ isRequestCacheable(data)
  THEN get([s EXCEPT !.cache = TRUE], url, data)
  ELSE [s EXCEPT !.cache = TRUE]

\* Client.get that makes the request even when the cache has the result.
clientGetAndRequest(s, url, data, n) ==
  IF ~s.authed THEN getPendingAuth([s EXCEPT !.cache = TRUE], url, data, n)
  ELSE IF answersFromCache([s EXCEPT !.cache = TRUE], url, data)
  THEN clientRequest(deliver([s EXCEPT !.cache = TRUE], n,
                             CacheAnswer(getResult(s, url, data))),
                     "get", url, data, n)
  ELSE clientRequest(lookup(s, url, data), "get", url, data, n)

\* Client.get(url, data, callback) for the n-th call of the caller.
clientGet(s, url, data, n) ==
  IF ~s.authed THEN getPendingAuth([s EXCEPT !.cache = TRUE], url, data, n)
  ELSE IF answersFromCache([s EXCEPT !.cache = TRUE], url, data)
  THEN deliver([s EXCEPT !.cache = TRUE], n,
               CacheAnswer(getResult(s, url, data)))
  ELSE clientRequest(lookup(s, url, data), "get", url, data, n)

\* this.get(...) of a get that was deferred.
getAgain(s, req) ==
  clientGet([s EXCEPT !.replayed = Append(@, req.id)], req.url, req.data,
            req.id)

RECURSIVE getEach(_, _)
\* The loop of flushRequestsPendingAuth().
getEach(s, q) ==
  IF q = <<>> THEN s ELSE getEach(getAgain(s, Head(q)), Tail(q))

\* flushRequestsPendingAuth()
flushRequestsPendingAuth(s) ==
  IF ~s.requestsPendingAuth.defined THEN s
  ELSE getEach([s EXCEPT !.requestsPendingAuth = NoPending],
               s.requestsPendingAuth.of)

RECURSIVE runJobs(_)
\* The promise reactions that are queued run, and those they queue.
runJobs(s) ==
  IF s.jobs = 0 THEN s
  ELSE runJobs(flushRequestsPendingAuth([s EXCEPT !.jobs = @ - 1]))

runThen(s, then, response) ==
  CASE then.kind = "respond" ->
         respond(flushRequestsPendingAuth(s), then.method, then.url,
                 then.data, response, then.id)
    [] then.kind = "get" -> getAgain(s, then)
    [] OTHER -> s

\* setAuthedEnv(response)
setAuthedEnv(s, response) ==
  flushPendingBuffer([s EXCEPT !.authed = TRUE, !.authRequested = FALSE])

\* this.sentVersions = true
versionsSent(s) == [s EXCEPT !.sentVersions = TRUE, !.synced = s.connected]

\* sendCachedVersions(callback), callback being () => then(response)
sendCachedVersions(s, then, response) ==
  IF ~s.cache \/ s.sentVersions THEN runThen(s, then, response)
  ELSE IF DOMAIN getVersions(s) # {}
  THEN request([s EXCEPT !.nextReq = @ + 1],
               Request(s.nextReq, "cached", FALSE, TRUE,
                       CachedCallback(then, response)))
  ELSE runThen(versionsSent(s), then, response)

\* A 'close' listener that flushes the CacheStore as well.
emitCloseFlushing(s) ==
  [emit(s, "close") EXCEPT !.authed = FALSE, !.sentVersions = FALSE,
                           !.results = [k \in {} |-> Miss],
                           !.versions = [c \in {} |-> 0],
                           !.indexes = [c \in {} |-> <<>>]]

\* this.emit('close'): the Client's listener (lib/client.js:146-153).
\* cache.reset() drops the memoized versions and indexes, which the Cache
\* reloads from the CacheStore before every use.
emitClose(s) ==
  IF s.client
  THEN [emit(s, "close") EXCEPT !.authed = FALSE, !.sentVersions = FALSE]
  ELSE emit(s, "close")

\* this.emit('auth.require'): the Client's listener (lib/client.js:133-145).
emitAuthRequire(s) ==
  IF ~s.client THEN emit(s, "auth.require")
  ELSE IF s.authed THEN flushPendingBuffer(emit(s, "auth.require"))
  ELSE IF s.authRequested THEN flushRequestBuffer(emit(s, "auth.require"))
  ELSE authWithKey(emit(s, "auth.require"), NoThen)

\* options.onPush(response): Client.onPush (lib/client.js:420-439) when the
\* Connection belongs to a Client, the function of the caller otherwise.
onPush(s, response) ==
  IF ~s.client
  THEN [s EXCEPT !.calls = Append(@, [cb |-> PushHandler, resp |-> response])]
  ELSE IF s.cache /\ response.cached.defined THEN clear(s, response)
  ELSE s

\* responder(response)
invoke(s, responder, response) ==
  CASE responder.kind = "user" ->
         [s EXCEPT !.calls = Append(@, [cb |-> responder, resp |-> response]),
                   !.invoked = @ \cup {responder.id}]
    [] responder.kind = "request" ->
         IF response.auth
         THEN IF response.end
              THEN resubmit(s, responder.method, responder.url,
                            responder.data, responder.id)
              ELSE auth(s, RespondThen(responder.id, responder.method,
                                       responder.url, responder.data))
         ELSE respond(IF s.authed THEN s
                      ELSE sendCachedVersions(setAuthedEnv(s, response),
                                              NoThen, response),
                      responder.method, responder.url, responder.data,
                      response, responder.id)
    [] responder.kind = "auth" ->
         sendCachedVersions(setAuthedEnv(s, response), responder.then,
                            response)
    [] responder.kind = "cached" ->
         runThen(IF response.cached.defined
                 THEN clear(versionsSent(s), response)
                 ELSE versionsSent(s),
                 responder.then, responder.response)
    [] OTHER -> s

\* --------------------------------------------------- Connection: handlers

ids(q) == {q[i].id : i \in DOMAIN q}

\* The requests close() moves to the front of pendingBuffer.
requeued(s) == nonService(s.requestBuffer) \o s.pendingBuffer

\* close(): the end, `if (this.isBufferNotEmpty()) this.connect()`.
reconnect(s) == IF isBufferNotEmpty(s) THEN connect(s) ELSE s

\* close() that leaves requestBuffer as it is: nothing is moved to
\* pendingBuffer.
afterEmitCloseKeeping(s) ==
  IF ~s.connected THEN s
  ELSE reconnect([s EXCEPT !.ready = FALSE,
                           !.connected = FALSE,
                           !.stream = NoStream,
                           !.requestCallbacks = NoCallbacks,
                           !.requested = 0,
                           !.wire = <<>>,
                           !.received = 0])

\* close(): what follows emit('close').
afterEmitClose(s) ==
  IF ~s.connected THEN s
  ELSE reconnect([s EXCEPT !.ready = FALSE,
                           !.connected = FALSE,
                           !.stream = NoStream,
                           !.requestCallbacks = NoCallbacks,
                           !.pendingBuffer = requeued(s),
                           !.requestBuffer = <<>>,
                           !.requested = 0,
                           !.moved = @ \cup ids(nonService(s.requestBuffer)),
                           !.wire = <<>>,
                           !.received = 0])

\* close(stream); sock is NoStream when close is called without a stream.
close(s, sock) ==
  IF sock # NoStream /\ s.stream # sock THEN s
  ELSE afterEmitClose(emitClose(s))

\* receiveResponse() with the requestCallbacks lookup dropped: the responder
\* is always the callback of the request shifted off requestBuffer.
responderPositional(s, response) ==
  IF s.requestBuffer = <<>> THEN Undefined
  ELSE Head(s.requestBuffer).callback

\* receiveResponse() taking the callback of the newest request of
\* requestBuffer instead of the oldest.
responderNewest(s, response) ==
  IF s.requestBuffer = <<>> THEN Undefined
  ELSE s.requestBuffer[Len(s.requestBuffer)].callback

\* The callback receiveResponse picks for a line.
responderOf(s, response) ==
  IF response.object /\ response.req_id # NoId
  THEN IF response.req_id \in DOMAIN s.requestCallbacks
       THEN s.requestCallbacks[response.req_id]
       ELSE Undefined
  ELSE IF s.requestBuffer = <<>> THEN Undefined
  ELSE Head(s.requestBuffer).callback

\* receiveResponse(): the request is shifted off requestBuffer, the callback
\* of the line's $req_id is forgotten and requested is decremented.
shift(s, response) ==
  LET req_id == IF response.object THEN response.req_id ELSE NoId
  IN [s EXCEPT
        !.received = @ + 1,
        !.requestBuffer = IF @ = <<>> THEN @ ELSE Tail(@),
        !.requestCallbacks = [r \in (DOMAIN @) \ {req_id} |-> @[r]],
        !.requested = @ - 1]

\* receiveResponse(): `if (response.$end) this.close(this.stream)`.
closeOnEnd(s, response) ==
  IF response.end THEN close([s EXCEPT !.lastClose = "end"], s.stream) ELSE s

\* receiveResponse(): `if (response.$error) this.emit('error.server', ...)`.
emitOnError(s, response) ==
  IF response.error # "" THEN emit(s, "error.server") ELSE s

\* receiveResponse(): the end,
\* `if (this.connected && this.stream) this.requestNext()`.
afterResponder(s) ==
  IF s.connected /\ s.stream # NoStream THEN requestNext(s) ELSE s

\* receiveResponse(data) for a line that is not a push.
receiveReply(s, response) ==
  LET responder == responderOf(s, response)
  IN IF responder = Undefined THEN shift(s, response)
     ELSE IF ~response.object
     THEN invoke(emit(shift(s, response), "error.protocol"), responder,
                 InvalidResponse(response))
     ELSE afterResponder(
            invoke(closeOnEnd(emitOnError(shift(s, response), response),
                              response),
                   responder, response))

\* receiveResponse() without its $push branch: a push frame is taken for the
\* response to the oldest request.
receiveResponseNoPush(s, response) == receiveReply(s, response)

\* receiveResponse(data)
receiveResponse(s, response) ==
  IF response.object /\ response.push
  THEN IF s.onPushSet THEN onPush(s, response) ELSE s
  ELSE receiveReply(s, response)

\* The callback of proto.connect (lib/connection.js:121-137)
connectedNow(s) ==
  emit([s EXCEPT !.connected = TRUE, !.connectingTimeout = FALSE], "connect")

onConnect(s) ==
  IF isBufferNotEmpty(s) THEN emitAuthRequire(connectedNow(s))
  ELSE connectedNow(s)

RECURSIVE respondEach(_, _, _)
\* flushRequestBufferWithError(): the loop that gives the error to the
\* callback of each request that has one.
respondEach(s, q, response) ==
  IF q = <<>> THEN s
  ELSE respondEach(IF Head(q).callback = Undefined THEN s
                   ELSE invoke(s, Head(q).callback, response),
                   Tail(q), response)

\* flushRequestBufferWithError() that leaves pendingBuffer alone.
flushRequestBufferOnlyWithError(s, response) ==
  respondEach([s EXCEPT !.requestBuffer = <<>>, !.requested = 0],
              s.requestBuffer, response)

\* flushRequestBufferWithError(error)
flushRequestBufferWithError(s, response) ==
  respondEach([s EXCEPT !.requestBuffer = <<>>,
                        !.pendingBuffer = <<>>,
                        !.requested = 0],
              s.requestBuffer \o s.pendingBuffer, response)

\* The final timeout of connect() fires (lib/connection.js:159-168).
connectTimeout(s) ==
  IF s.connected THEN s
  ELSE connect(flushRequestBufferWithError(
                 [s EXCEPT !.connectingTimeout = FALSE], TimeoutError))

\* A retry timeout of connect() fires (lib/connection.js:148-155).
retryTimeout(s) ==
  IF ~s.connected /\ isBufferNotEmpty(s)
  THEN connect([s EXCEPT !.retryTimers = @ - 1])
  ELSE [s EXCEPT !.retryTimers = @ - 1]

\* ------------------------------------------- a Connection used directly
\* The Connection as lib/connection.test.js drives it: a caller that calls
\* request(), flushRequestBuffer() and flushPendingBuffer() itself, no
\* listeners, and a server at the other end of the socket.

\* What lies outside the record: the Client, if there is one, holds the
\* Connection; nothing has been received, awaited or stored.
InitOthers ==
  /\ connection = TRUE
  /\ buffer = <<>>
  /\ lines = <<>>
  /\ chunks = <<>>
  /\ awaited = [n \in {} |-> <<>>]
  /\ handed = [n \in {} |-> <<>>]
  /\ memory = [p \in {} |-> 0]
  /\ instances = <<>>
  /\ stores = <<>>
  /\ storeInstance = 0

\* After new Connection(host, port, {maxConcurrent: k}, callback): the
\* constructor has called connect().
InitConnection ==
  /\ stream = 1
  /\ nextSocket = 2
  /\ ready = FALSE
  /\ connected = FALSE
  /\ requestBuffer = <<>>
  /\ pendingBuffer = <<>>
  /\ requested = 0
  /\ requestCallbacks = NoCallbacks
  /\ maxConcurrent \in 1..MaxK
  /\ nextReq = 1
  /\ wire = <<>>
  /\ received = 0
  /\ authorized = FALSE
  /\ lastClose = "none"
  /\ calls = <<>>
  /\ invoked = {}
  /\ held = {}
  /\ moved = {}
  /\ purged = {}
  /\ connectingTimeout = TRUE
  /\ retryTimers = 1
  /\ requestsPendingAuth = NoPending
  /\ jobs = 0
  /\ promises = [n \in {} |-> 0]
  /\ replayed = <<>>
  /\ emitted = <<>>
  /\ synced = FALSE
  /\ cachedWritten = 0
  /\ issued = [n \in {} |-> 0]
  /\ connecting = {1}
  /\ InitOthers

\* An empty CacheStore.
InitStore ==
  /\ results = [k \in {} |-> Miss]
  /\ versions = [c \in {} |-> 0]
  /\ indexes = [c \in {} |-> <<>>]

\* No Client, no Cache.
InitConn ==
  /\ InitConnection
  /\ onPushSet = FALSE
  /\ InitStore
  /\ indexLimit = MaxIndexLimit
  /\ client = FALSE
  /\ authed = FALSE
  /\ authRequested = FALSE
  /\ sentVersions = FALSE
  /\ cache = FALSE

\* The requests the caller issues: <<method, creds, withId, withCb>>.
RequestKinds ==
  {<<"get", FALSE, TRUE, TRUE>>, <<"get", FALSE, FALSE, TRUE>>,
   <<"get", TRUE, TRUE, TRUE>>, <<"auth", FALSE, FALSE, TRUE>>,
   <<"cached", FALSE, TRUE, TRUE>>}

\* conn.request(method, url, data, callback)
ConnRequest(method, creds, withId, withCb) ==
  /\ nextReq <= MaxRequests
  /\ LET cb == IF withCb THEN UserCallback(nextReq) ELSE Undefined
         args == Request(nextReq, method, creds, withId, cb)
     IN Commit(request([Begin EXCEPT !.nextReq = @ + 1], args))

\* The socket of the current stream connects.
SocketConnect ==
  /\ stream # NoStream
  /\ ~connected
  /\ Commit(onConnect([Begin EXCEPT !.connecting = @ \ {stream}]))

\* The socket of the current stream closes: its 'close' event.
SocketClose ==
  /\ stream # NoStream
  /\ connected
  /\ nextSocket <= MaxSockets
  /\ Commit(close([Begin EXCEPT !.lastClose = "drop"], stream))

\* The server answers requests without $req_id in the order it read them.
InTurn(i) ==
  wire[i].req_id = NoId => \A j \in 1..(i - 1) : wire[j].req_id # NoId

\* A $req_id no request of the caller carries.
UnknownId == MaxRequests + 1

\* The line the server sends for request args: a response that echoes the
\* request's $req_id ("ok", with $error: "error", with $end: "end", with
\* $auth: "auth", with $auth and $end: "authend", with $collection and
\* $cached: "stored", with $error and these: "errorcached"), a line that is
\* no JSON
\* object ("malformed") or a response with a $req_id of its own ("badid").
\* $data identifies the request it answers.
Answer(args, content) ==
  CASE content = "ok" -> Line(FALSE, TRUE, args.req_id, "", FALSE, args.id)
    [] content = "error" -> Line(FALSE, TRUE, args.req_id, "server", FALSE, args.id)
    [] content = "stored" ->
         [Line(FALSE, TRUE, args.req_id, "", FALSE, args.id) EXCEPT
            !.collection = "api.settings",
            !.cached = Cached([c \in {"api.settings"} |-> 1])]
    [] content = "errorcached" ->
         [Line(FALSE, TRUE, args.req_id, "server", FALSE, args.id) EXCEPT
            !.collection = "api.settings",
            !.cached = Cached([c \in {"api.settings"} |-> MaxVersion])]
    [] content = "end" -> Line(FALSE, TRUE, args.req_id, "", TRUE, args.id)
    [] content = "malformed" -> Line(FALSE, FALSE, NoId, "", FALSE, args.id)
    [] content = "badid" -> Line(FALSE, TRUE, UnknownId, "", FALSE, args.id)
    [] content = "auth" ->
         [Line(FALSE, TRUE, args.req_id, "", FALSE, args.id) EXCEPT !.auth = TRUE]
    [] content = "authend" ->
         [Line(FALSE, TRUE, args.req_id, "", TRUE, args.id) EXCEPT !.auth = TRUE]

\* The contents that differ for a Connection ($error only emits an event).
Contents == {"ok", "end", "malformed", "badid"}

RemoveAt(q, i) == SubSeq(q, 1, i - 1) \o SubSeq(q, i + 1, Len(q))

\* A request whose response authorizes the socket: an `auth` request, or a
\* request that carries $client and $key.
authorizes(args) == args.method = "auth" \/ args.creds

\* The server has read a request that it can answer next.
CanAnswer == connected /\ \E i \in DOMAIN wire : InTurn(i)

\* The server answers the i-th request it has not answered yet.
Respond(i, content) ==
  /\ connected
  /\ i \in DOMAIN wire
  /\ InTurn(i)
  /\ content \in {"end", "authend"} => nextSocket <= MaxSockets
  /\ Commit(runJobs(receiveResponse(
              [Begin EXCEPT !.wire = RemoveAt(@, i),
                            !.authorized =
                               @ \/ (authorizes(wire[i]) /\
                                     content \in {"ok", "error", "end",
                                                  "stored", "errorcached"})],
              Answer(wire[i], content))))

\* The same, for a server that sends at most MaxLines lines to a socket.
ServerRespond(i, content) ==
  /\ received < MaxLines
  /\ Respond(i, content)

\* A line that answers no request, while the server has nothing to answer.
StrayLines ==
  {Line(FALSE, FALSE, NoId, "", FALSE, NoData),
   Line(FALSE, TRUE, NoId, "", FALSE, NoData),
   Line(FALSE, TRUE, UnknownId, "", FALSE, NoData)}

ServerStray(line) ==
  /\ connected
  /\ wire = <<>>
  /\ received < MaxLines
  /\ Commit(receiveResponse(Begin, line))

\* The frames the server pushes: $push with $data, without and with a
\* $req_id (the one of the caller's first request).
Pushes ==
  {Line(TRUE, TRUE, NoId, "", FALSE, 1), Line(TRUE, TRUE, 1, "", FALSE, 1)}

\* The server pushes a frame.
ServerPush(line) ==
  /\ connected
  /\ Commit(receiveResponse(Begin, line))

\* The final timeout of connect() fires, the server being out of reach: the
\* socket that was connecting never connects.
ConnectTimeout ==
  /\ connectingTimeout
  /\ nextSocket <= MaxSockets
  /\ Commit(connectTimeout([Begin EXCEPT !.connecting = {}]))

\* A retry timeout of connect() fires, the server being out of reach when it
\* reconnects: the socket that was connecting never connects.
RetryTimeout ==
  /\ retryTimers > 0
  /\ (~connected /\ isBufferNotEmpty(St)) => nextSocket <= MaxSockets
  /\ Commit(retryTimeout([Begin EXCEPT !.connecting =
                            IF ~connected /\ isBufferNotEmpty(St)
                            THEN {} ELSE @]))

\* conn.flushRequestBuffer(), called as its owner calls it: once the socket
\* has connected, before anything is written to it (lib/client.js:137-140).
FlushRequestBuffer ==
  /\ connected
  /\ requested = 0
  /\ received = 0
  /\ Commit(flushRequestBuffer(Begin))

\* conn.flushPendingBuffer()
FlushPendingBuffer ==
  Commit(flushPendingBuffer(Begin))

NextConn ==
  \/ \E k \in RequestKinds : ConnRequest(k[1], k[2], k[3], k[4])
  \/ SocketConnect
  \/ SocketClose
  \/ \E i \in DOMAIN wire, content \in Contents : ServerRespond(i, content)
  \/ \E line \in StrayLines : ServerStray(line)
  \/ \E line \in Pushes : ServerPush(line)
  \/ FlushRequestBuffer
  \/ FlushPendingBuffer

SpecConn == InitConn /\ [][NextConn]_vars

\* Only requests that carry a $req_id (as Client.request and
\* sendCachedVersions build them), answered by responses that echo it, in
\* any order.
IdKinds ==
  {<<"get", FALSE, TRUE, TRUE>>, <<"get", TRUE, TRUE, TRUE>>,
   <<"cached", FALSE, TRUE, TRUE>>}

NextIds ==
  \/ \E k \in IdKinds : ConnRequest(k[1], k[2], k[3], k[4])
  \/ SocketConnect
  \/ SocketClose
  \/ \E i \in DOMAIN wire, content \in {"ok", "error", "end"} :
       ServerRespond(i, content)
  \/ FlushRequestBuffer
  \/ FlushPendingBuffer

SpecIds == InitConn /\ [][NextIds]_vars

\* Only requests without $req_id (as lib/connection.test.js and Client.auth
\* issue them), answered in order by lines of any content.
PlainKinds ==
  {<<"get", FALSE, FALSE, TRUE>>, <<"get", TRUE, FALSE, TRUE>>,
   <<"auth", FALSE, FALSE, TRUE>>}

NextFifo ==
  \/ \E k \in PlainKinds : ConnRequest(k[1], k[2], k[3], k[4])
  \/ SocketConnect
  \/ SocketClose
  \/ \E i \in DOMAIN wire, content \in Contents \cup {"error"} :
       ServerRespond(i, content)
  \/ \E line \in Pushes : ServerPush(line)
  \/ FlushRequestBuffer
  \/ FlushPendingBuffer

SpecFifo == InitConn /\ [][NextFifo]_vars

\* A Connection used directly with or without options.onPush, its timers
\* running: requests with and without $req_id, answered in order by valid
\* and invalid lines.
InitTimers ==
  /\ InitConnection
  /\ onPushSet \in BOOLEAN
  /\ InitStore
  /\ indexLimit = MaxIndexLimit
  /\ client = FALSE
  /\ authed = FALSE
  /\ authRequested = FALSE
  /\ sentVersions = FALSE
  /\ cache = FALSE

TimerKinds ==
  {<<"get", FALSE, FALSE, TRUE>>, <<"get", TRUE, TRUE, TRUE>>,
   <<"auth", FALSE, FALSE, TRUE>>}

\* Lines that are no JSON object: with and without the text of a $push.
InvalidLines ==
  {Line(FALSE, FALSE, NoId, "", FALSE, NoData),
   Line(TRUE, FALSE, NoId, "", FALSE, 1)}

NextTimers ==
  \/ \E k \in TimerKinds : ConnRequest(k[1], k[2], k[3], k[4])
  \/ SocketConnect
  \/ SocketClose
  \/ \E i \in DOMAIN wire, content \in {"ok", "malformed"} :
       ServerRespond(i, content)
  \/ \E line \in InvalidLines : ServerStray(line)
  \/ \E line \in Pushes : ServerPush(line)
  \/ ConnectTimeout
  \/ RetryTimeout
  \/ FlushPendingBuffer

SpecTimers == InitTimers /\ [][NextTimers]_vars

\* ------------------------------------------- a Connection and its socket
\* The socket's 'data' events: the inbound stream arrives in chunks cut at
\* any place, and receive() finds the lines in them.

\* The characters of the inbound stream: a character of a line, and the
\* newline that ends a line.
NL == "\n"
Chars == {"x", NL}

\* The texts of at most n characters.
RECURSIVE Texts(_)
Texts(n) ==
  IF n = 0 THEN {<<>>}
  ELSE Texts(n - 1) \cup
       {Append(t, c) : t \in {u \in Texts(n - 1) : Len(u) = n - 1}, c \in Chars}

\* array.join('')
RECURSIVE join(_)
join(array) == IF array = <<>> THEN <<>> ELSE Head(array) \o join(Tail(array))

\* text.split('\n'): the pieces between the newlines, an empty piece after a
\* newline that ends the text.
RECURSIVE split(_, _)
split(text, piece) ==
  IF text = <<>> THEN <<piece>>
  ELSE IF Head(text) = NL THEN <<piece>> \o split(Tail(text), <<>>)
  ELSE split(Tail(text), Append(piece, Head(text)))

\* receive() that hands each piece as it is, whatever this.buffer holds.
dataOfChunk(held_, chunk) == chunk

\* receive(): the data of a piece that a newline ends, which is the piece
\* joined to what this.buffer holds.
dataOf(held_, chunk) ==
  IF Len(held_) > 0 THEN join(Append(held_, chunk)) ELSE chunk

\* receive(): the loop over the pieces that a newline ends, which empties
\* this.buffer at the first of them.
RECURSIVE handedTo(_, _)
handedTo(held_, pieces) ==
  IF pieces = <<>> THEN <<>>
  ELSE <<dataOf(held_, Head(pieces))>> \o handedTo(<<>>, Tail(pieces))

\* JSON.parse(data) of receiveResponse: no text of Chars is JSON, so that
\* response stays undefined.
parse(data) == Line(FALSE, FALSE, NoId, "", FALSE, NoData)

\* receive(): receiveResponse(data) for each piece in turn.
RECURSIVE receiveEach(_, _)
receiveEach(s, texts) ==
  IF texts = <<>> THEN s
  ELSE receiveEach(receiveResponse(s, parse(Head(texts))), Tail(texts))

\* The socket of the current stream passes a chunk, which is not empty, to
\* receive(stream, chunk).
Receive(chunk) ==
  /\ connected
  /\ stream # NoStream
  /\ Len(join(chunks)) + Len(chunk) <= MaxStream
  /\ LET pieces == split(chunk, <<>>)
         lastChunk == pieces[Len(pieces)]
         ended == SubSeq(pieces, 1, Len(pieces) - 1)
         rest == IF ended = <<>> THEN buffer ELSE <<>>
     IN /\ Assign(receiveEach(Begin, handedTo(buffer, ended)))
        /\ lines' = lines \o handedTo(buffer, ended)
        /\ buffer' = IF Len(lastChunk) > 0 THEN Append(rest, lastChunk)
                     ELSE rest
        /\ chunks' = Append(chunks, chunk)
        /\ UNCHANGED <<connection, promised, storage>>

\* The requests made while the stream arrives: without and with a $req_id.
ReceiveKinds == {<<"get", TRUE, FALSE, TRUE>>, <<"get", TRUE, TRUE, TRUE>>}

NextReceive ==
  \/ \E k \in ReceiveKinds : ConnRequest(k[1], k[2], k[3], k[4])
  \/ SocketConnect
  \/ SocketClose
  \/ \E chunk \in Texts(MaxChunk) \ {<<>>} : Receive(chunk)

SpecReceive == InitConn /\ [][NextReceive]_vars

\* ------------------------------------------------ a Client and its server
\* After new Client(id, key, options, callback): the constructor has called
\* connect(), which created the Connection, which is connecting.  The Cache
\* is created by the first request; the CacheStore it will use is empty.
InitClient ==
  /\ InitConnection
  /\ onPushSet = TRUE
  /\ InitStore
  /\ indexLimit = MaxIndexLimit
  /\ client = TRUE
  /\ authed = FALSE
  /\ authRequested = FALSE
  /\ sentVersions = FALSE
  /\ cache = FALSE

\* The url and the data of the caller's requests.
SomeUrl == <<"a">>

\* client.post(url, data, callback) and the like: Client.request.
ClientRequest(method) ==
  /\ nextReq <= MaxRequests
  /\ Commit(clientRequest([Begin EXCEPT
                             !.issued = set(@, nextReq, Call(NoArg))],
                          method, SomeUrl, NoArg, nextReq))

\* What the server answers to a request of the Client.
ClientContents(args) ==
  IF isService(args) THEN {"ok", "end"}
  ELSE {"ok", "error", "end", "auth", "authend"}

NextClient ==
  \/ \E method \in {"post"} : ClientRequest(method)
  \/ SocketConnect
  \/ SocketClose
  \/ \E i \in DOMAIN wire : \E content \in ClientContents(wire[i]) :
       Respond(i, content)

Spec == InitClient /\ [][NextClient]_vars

\* The socket layer completes a connection attempt, and the server answers
\* a request it has read; the caller is free to issue no further request.
\* The server's answer is weakly fair; the condition is written out, with
\* the state in which the server has a request to answer in place of ENABLED.
SpecFair ==
  /\ Spec
  /\ WF_vars(SocketConnect)
  /\ \/ []<>(~CanAnswer)
     \/ []<><<\E i \in DOMAIN wire : Respond(i, "ok")>>_vars

\* ------------------------------------------------ a Client that is closed
\* Client.close(): connection.close(), then the Client forgets the
\* Connection and its flags.
clientClose(s) ==
  [close([s EXCEPT !.lastClose = "close"], NoStream) EXCEPT
     !.authed = FALSE, !.authRequested = FALSE, !.sentVersions = FALSE]

\* client.close(); nothing happens when this.connection is null.
ClientClose ==
  IF connection
  THEN /\ nextSocket <= MaxSockets
       /\ Assign(clientClose(Begin))
       /\ connection' = FALSE
       /\ UNCHANGED <<inbound, promised, storage>>
  ELSE UNCHANGED vars

\* A Client that makes requests and is closed at any time; what the
\* Connection it has let go of does afterwards is not followed.
NextClose ==
  \/ connection /\ ClientRequest("post")
  \/ connection /\ SocketConnect
  \/ connection /\ SocketClose
  \/ connection /\ \E i \in DOMAIN wire :
                     \E content \in ClientContents(wire[i]) : Respond(i, content)
  \/ ClientClose

SpecClose == InitClient /\ [][NextClose]_vars

\* ------------------------------------------------- a Client and its Cache
\* The Cache as lib/cache.test.js and lib/client.test.js drive it: a Client
\* whose cache is a new Cache(clientId, {indexLimit}), on which put, get and
\* clear are called, and whose onPush and respond are called with responses
\* of the server.
InitCache ==
  /\ InitConnection
  /\ onPushSet = TRUE
  /\ InitStore
  /\ indexLimit \in 1..MaxIndexLimit
  /\ client = TRUE
  /\ authed = FALSE
  /\ authRequested = FALSE
  /\ sentVersions = FALSE
  /\ cache = TRUE

\* The url and data of get and put: two spellings of one url, without and
\* with a query.
Lookups ==
  {<<<<"a">>, NoArg>>, <<<<"/", "a", "/">>, NoArg>>, <<<<"a">>, "q">>}

\* The versions a server gives a collection.
Versions == 1..MaxVersion

\* A response with the given cache headers and payload.
Result(collection, expanded, cached, data) ==
  [Line(FALSE, TRUE, NoId, "", FALSE, data) EXCEPT
     !.collection = collection, !.expanded = expanded, !.cached = cached]

\* $cached: {collection: version}
Version(collection, version) == Cached([c \in {collection} |-> version])

\* The responses to a get of one collection: $collection and its version in
\* $cached, with or without $data.
Found ==
  {Result(c, <<>>, Version(c, v), data) :
     c \in Collections, v \in Versions, data \in {NoData, 1}}

\* The successful responses to a get that Client.respond is given.
Answers == {r \in Found : r.data # NoData}

\* The responses the Cache is given: the ones of Found, and responses
\*   - with an empty $cached, without $cached;
\*   - that name their only collection in $expanded;
\*   - that give the version of an expanded collection and not the one of
\*     their $collection;
\*   - without any cache header.
Results ==
  Found \cup
  {Result("api.settings", <<>>, Cached([c \in {} |-> 0]), 1),
   Result("api.settings", <<>>, NoCached, 1),
   Result(NoCollection, <<"api.settings">>, Version("api.settings", 1), 1),
   Result("admin.settings", <<"api.settings">>, Version("api.settings", 1), 1),
   Result(NoCollection, <<>>, NoCached, 1)}

\* The invalidation sets of a response or of a push.
Invalidations ==
  {Result(NoCollection, <<>>, cached, NoData) :
     cached \in {NoCached, Cached([c \in {} |-> 0])} \cup
                {Version(c, v) : c \in Collections, v \in Versions}}

\* cache.put(url, data, result)
CachePut(url, data, result) ==
  Commit(put(Begin, url, data, result))

\* cache.get(url, data)
CacheGet(url, data) ==
  Commit(get(Begin, url, data))

\* cache.clear(result)
CacheClear(result) ==
  Commit(clear(Begin, result))

\* client.onPush(response)
ClientOnPush(response) ==
  Commit(onPush(Begin, [response EXCEPT !.push = TRUE]))

\* client.respond(method, url, request, response, callback), the callback
\* being the one of the caller's first call.
ClientRespond(method, url, data, response) ==
  Commit(respond(Begin, method, url, data, response, 1))

NextCache ==
  \/ \E l \in Lookups, result \in Results : CachePut(l[1], l[2], result)
  \/ \E l \in Lookups : CacheGet(l[1], l[2])
  \/ \E result \in Invalidations : CacheClear(result)
  \/ \E response \in Invalidations : ClientOnPush(response)
  \/ \E l \in Lookups, response \in Answers :
       ClientRespond("get", l[1], l[2], response)

SpecCache == InitCache /\ [][NextCache]_vars

\* The same Cache with three urls, hence three cache keys, so that an index
\* of two keys is full when a third key is put.
EvictLookups == {<<<<"a">>, NoArg>>, <<<<"b">>, NoArg>>, <<<<"c">>, NoArg>>}

NextEvict ==
  \/ \E l \in EvictLookups, result \in Answers : CachePut(l[1], l[2], result)
  \/ \E l \in EvictLookups : CacheGet(l[1], l[2])
  \/ \E result \in Invalidations : CacheClear(result)

SpecEvict == InitCache /\ [][NextEvict]_vars

\* The same Cache with a collection whose name does not end in .settings:
\* results of each collection, one of them expanding api.settings, and
\* responses that tell a version of admin.settings or of products.
SettingsResults ==
  {Result(c, <<>>, Version(c, v), 1) :
     c \in Collections \cup {"products"}, v \in Versions} \cup
  {Result("products", <<"api.settings">>,
          Cached([c \in {"products", "api.settings"} |-> 1]), 1)}

SettingsInvalidations ==
  {Result(NoCollection, <<>>, Version(c, v), NoData) :
     c \in {"admin.settings", "products"}, v \in Versions}

NextSettings ==
  \/ \E l \in Lookups, result \in SettingsResults :
       CachePut(l[1], l[2], result)
  \/ \E l \in Lookups : CacheGet(l[1], l[2])
  \/ \E result \in SettingsInvalidations : CacheClear(result)

SpecSettings == InitCache /\ [][NextSettings]_vars

\* respond and onPush alone, respond also without a response, as
\* lib/client.test.js calls it.
NextRespond ==
  \/ \E l \in Lookups, response \in Answers :
       ClientRespond("get", l[1], l[2], response)
  \/ ClientRespond("post", SomeUrl, NoArg, NoResponse)
  \/ \E response \in Invalidations : ClientOnPush(response)

SpecRespond == InitCache /\ [][NextRespond]_vars

\* --------------------------------------------- a Client, get and promises
\* A Client whose caller calls get, with and without $nocache, and post, with
\* plain data and with data that holds a promise; the server answers with
\* and without cache headers, errors, $end and $auth, and pushes a version.
MaxCalls == 2        \* calls of the caller over a behaviour

\* The caller makes its next call: it has the number nextReq.
issue(s, data) ==
  [s EXCEPT !.nextReq = @ + 1, !.issued = set(@, s.nextReq, Call(data))]

\* client.get(url, data, callback)
ClientGet(url, data) ==
  /\ Cardinality(DOMAIN issued) < MaxCalls
  /\ Commit(runJobs(clientGet(issue(Begin, data), url, data, nextReq)))

\* client.post(url, data, callback), data holding no promise.
ClientPost ==
  /\ Cardinality(DOMAIN issued) < MaxCalls
  /\ Commit(clientRequest(issue(Begin, NoArg), "post", SomeUrl, NoArg,
                          nextReq))

\* client.post(url, data, callback), data holding a promise.
ClientPostPromised ==
  /\ Cardinality(DOMAIN issued) < MaxCalls
  /\ Commit(clientRequestPromised(issue(Begin, NoArg), "post", SomeUrl,
                                  NoArg, nextReq))

\* What the server answers to a request of the Client.
GetContents(args) ==
  CASE isService(args) -> {"ok", "end"}
    [] args.method = "get" -> {"stored", "error", "authend"}
    [] OTHER -> {"ok", "errorcached", "auth"}

\* A push that tells the version of a collection.
VersionPushes ==
  {[Line(TRUE, TRUE, NoId, "", FALSE, NoData) EXCEPT
      !.cached = Cached([c \in {"api.settings"} |-> 1])]}

NextGet ==
  \/ \E data \in {NoArg, NoCache} : ClientGet(SomeUrl, data)
  \/ ClientPost
  \/ ClientPostPromised
  \/ SocketConnect
  \/ SocketClose
  \/ \E i \in DOMAIN wire : \E content \in GetContents(wire[i]) :
       Respond(i, content)
  \/ \E line \in VersionPushes : ServerPush(line)
  \/ RetryTimeout

SpecGet == InitClient /\ [][NextGet]_vars

\* The same Client with a server that answers every authorization and every
\* `cached` request without $end, gives no $auth without $end and pushes
\* nothing, and sockets that close only on $end.
FairContents(args) ==
  CASE isService(args) -> {"ok"}
    [] args.method = "get" -> {"stored", "error", "authend"}
    [] OTHER -> {"ok", "authend"}

ServerAnswers ==
  \E i \in DOMAIN wire : \E content \in FairContents(wire[i]) :
    Respond(i, content)

NextGetFair ==
  \/ ClientGet(SomeUrl, NoArg)
  \/ ClientPost
  \/ SocketConnect
  \/ ServerAnswers
  \/ RetryTimeout

\* The socket layer completes a connection attempt, the server answers every
\* request it has read, one way or another, and a retry timeout that is
\* pending fires; the caller is free to make no further call. The server's
\* fairness is written out as in SpecFair.
SpecGetFair ==
  /\ InitClient
  /\ [][NextGetFair]_vars
  /\ WF_vars(SocketConnect)
  /\ WF_vars(RetryTimeout)
  /\ []<>(~CanAnswer) \/ []<><<ServerAnswers>>_vars

\* --------------------------- a Client whose connection attempts overlap
\* connect() replaces this.stream and leaves the socket it replaces alone:
\* that socket can still connect, and its connect callback then runs on the
\* Connection as the callback of the current socket does.  What is written
\* to a socket that is connecting is sent once it has connected.

\* The connect callback of socket n runs: the current one or an earlier one.
SocketConnects(n) ==
  /\ n \in connecting
  /\ Commit(onConnect([Begin EXCEPT !.connecting = @ \ {n}]))

\* A retry timeout of connect() fires (lib/connection.js:148-156).
RetryTimer ==
  /\ retryTimers > 0
  /\ (~connected /\ isBufferNotEmpty(St)) => nextSocket <= MaxSockets
  /\ Commit(retryTimeout(Begin))

\* The final timeout of connect() fires (lib/connection.js:159-168).
ConnectTimer ==
  /\ connectingTimeout
  /\ nextSocket <= MaxSockets
  /\ Commit(connectTimeout(Begin))

\* The current socket has connected.
Up == stream # NoStream /\ stream \notin connecting

\* The server answers a request it has read from the current socket.
ServerReplies(i, content) == Up /\ Respond(i, content)

\* The current socket, which had connected, closes.
CurrentCloses == Up /\ SocketClose

NextRetry ==
  \/ ClientRequest("post")
  \/ ClientGet(SomeUrl, NoArg)
  \/ \E n \in connecting : SocketConnects(n)
  \/ RetryTimer
  \/ ConnectTimer
  \/ \E i \in DOMAIN wire : \E content \in {"ok", "error"} :
       ServerReplies(i, content)
  \/ CurrentCloses

SpecRetry == InitClient /\ [][NextRetry]_vars

\* ---------------------------------------------- a Client and promised data
\* A Client whose caller calls post with data that holds promises which
\* settle later, each by itself, fulfilled or rejected.
MaxFields == 2       \* promises held by the data of a call

\* promisifyData(data): each promise of the data, pending when the call is
\* made.  "value" is a promise that has fulfilled: the reaction of
\* thenResolvePromisedValue, registered before Promise.all registers its own,
\* has put the value in its place.
Awaiting(k) == [i \in 1..k |-> "pending"]

\* A Promise.all that fulfils with the first of its promises to fulfil.
anyFulfilled(now) == "value" \in Range(now)

\* Promise.all(promises) fulfils when each of its promises has fulfilled.
allFulfilled(now) == \A j \in DOMAIN now : now[j] = "value"

\* client.post(url, data, callback), data holding k pending promises:
\* Client.request returns Promise.all(promises).then(...) (lib/client.js:
\* 182-196).
ClientPostAwaiting(k) ==
  /\ Cardinality(DOMAIN issued) < MaxCalls
  /\ Assign([issue(Begin, NoArg) EXCEPT !.cache = TRUE])
  /\ awaited' = set(awaited, nextReq, Awaiting(k))
  /\ handed' = set(handed, nextReq, <<>>)
  /\ UNCHANGED <<connection, inbound, storage>>

\* The i-th promise of the data of call n settles.  When it is the last one
\* to fulfil, the reaction of Promise.all(promises).then runs, which calls
\* this.request with the data and resolves the promise the caller holds;
\* when it is the first one to reject, Promise.all rejects and the promise
\* the caller holds rejects with it.
PromiseSettles(n, i, how) ==
  /\ n \in DOMAIN awaited
  /\ i \in DOMAIN awaited[n]
  /\ awaited[n][i] = "pending"
  /\ LET now == [awaited[n] EXCEPT ![i] = how]
     IN /\ awaited' = [awaited EXCEPT ![n] = now]
        /\ IF allFulfilled(now)
           THEN /\ Assign(clientRequestPromised(Begin, "post", SomeUrl,
                                                NoArg, n))
                /\ handed' = [handed EXCEPT ![n] = Append(@, now)]
           ELSE IF how = "rejected" /\ "rejected" \notin Range(awaited[n])
           THEN /\ Assign(settle(Begin, n, RejectedWith("reason")))
                /\ UNCHANGED handed
           ELSE /\ Assign(Begin)
                /\ UNCHANGED handed
        /\ UNCHANGED <<connection, inbound, storage>>

NextAwait ==
  \/ \E k \in 1..MaxFields : ClientPostAwaiting(k)
  \/ \E n \in DOMAIN awaited, i \in 1..MaxFields, how \in {"value", "rejected"} :
       PromiseSettles(n, i, how)
  \/ ClientPost
  \/ SocketConnect
  \/ SocketClose
  \/ \E i \in DOMAIN wire : \E content \in {"ok", "end"} : Respond(i, content)

SpecAwait == InitClient /\ [][NextAwait]_vars

\* -------------------------------------------- Caches that share a storage
\* Caches created with storage 'shared-memory' for several clients and
\* environments (lib/cache.js): they read and write the one map
\* SharedMemoryStorage.memory, each under the paths getPath gives it.  A
\* string is the sequence of its parts; "." is a part of its own.

\* The client ids and the environments of the Caches; an env that is
\* undefined is NoEnv.
NoEnv == <<>>
ClientIds == {<<"a">>, <<"a", ".", "b">>}
Envs == {NoEnv, <<"b">>}
Params == [clientId : ClientIds, env : Envs]

\* array.join('.')
RECURSIVE joinDots(_)
joinDots(args) ==
  IF args = <<>> THEN <<>>
  ELSE IF Len(args) = 1 THEN Head(args)
  ELSE Head(args) \o <<".">> \o joinDots(Tail(args))

\* getPath(...args), the Caches having no path option.
getPath(params, args) ==
  <<"/client", ".">> \o params.clientId \o <<".">> \o
  (IF params.env # NoEnv THEN params.env \o <<".">> ELSE <<>>) \o
  joinDots(args)

\* What a Cache stores: the result of a cache key, the versions, the index.
Stored == {"result", "versions", "index"}

\* The arguments getPath is called with for each (lib/cache.js:131, 202,
\* 167); the cache key is a digest in hexadecimal digits.
argsOf(what) ==
  IF what = "result" THEN <<<<"0f">>, <<"result">>>> ELSE <<<<what>>>>

\* A Cache with these params writes: writeCache(getPath(...), content).
CacheWrite(params, what) ==
  /\ \/ has(memory, getPath(params, argsOf(what)))
     \/ Cardinality(DOMAIN memory) < MaxEntries
  /\ memory' = set(memory, getPath(params, argsOf(what)),
                   [by |-> params, what |-> what])
  /\ UNCHANGED <<record, connection, inbound, promised, instances, stores,
                 storeInstance>>

\* A Cache with these params removes: clearCache(getPath(...)).
CacheRemove(params, what) ==
  /\ has(memory, getPath(params, argsOf(what)))
  /\ memory' = [p \in (DOMAIN memory) \ {getPath(params, argsOf(what))} |->
                  memory[p]]
  /\ UNCHANGED <<record, connection, inbound, promised, instances, stores,
                 storeInstance>>

NextShared ==
  \/ \E params \in Params, what \in Stored : CacheWrite(params, what)
  \/ \E params \in Params, what \in Stored : CacheRemove(params, what)

SpecShared == InitCache /\ [][NextShared]_vars

\* ---------------------------------------------------------- cache stores
\* The stores of lib/cache/storage: MemoryStore, whose memory is its own,
\* and SharedMemoryStore, which hands every call to the one MemoryStore that
\* SharedMemoryStore.storeInstance holds.

\* The keys and the values of the entries; read gives undefined for a key
\* that is absent.
Keys == {"a", "b"}
Values == {1, 2}
Absent == 0

\* new MemoryStore(): `this.memory = {}`
NoEntries == [k \in {} |-> Absent]

\* MemoryStore.read(key)
read(mem, key) == IF has(mem, key) THEN mem[key] ELSE Absent

\* MemoryStore.write(key, value)
write(mem, key, value) == set(mem, key, value)

\* MemoryStore.remove(key)
remove(mem, key) == [k \in (DOMAIN mem) \ {key} |-> mem[k]]

\* MemoryStore.flush(): `this.memory = {}`
flush(mem) == NoEntries

\* A SharedMemoryStore that always creates a MemoryStore of its own.
storeOfItsOwn(instance, fresh) == fresh

\* The constructor of SharedMemoryStore: this.store is storeInstance, which
\* is created when it is undefined.
storeOf(instance, fresh) == IF instance = 0 THEN fresh ELSE instance

\* new MemoryStore()
NewMemoryStore ==
  /\ Len(instances) < MaxInstances
  /\ stores' = Append(stores, NoEntries)
  /\ instances' = Append(instances, [kind |-> "memory",
                                     store |-> Len(stores) + 1])
  /\ UNCHANGED <<record, connection, inbound, promised, memory,
                 storeInstance>>

\* new SharedMemoryStore()
NewSharedMemoryStore ==
  /\ Len(instances) < MaxInstances
  /\ LET store == storeOf(storeInstance, Len(stores) + 1)
     IN /\ stores' = IF store > Len(stores) THEN Append(stores, NoEntries)
                     ELSE stores
        /\ storeInstance' = IF storeInstance = 0 THEN store
                            ELSE storeInstance
        /\ instances' = Append(instances, [kind |-> "shared-memory",
                                           store |-> store])
  /\ UNCHANGED <<record, connection, inbound, promised, memory>>

\* What store.read(key) returns for the i-th store created.
StoreRead(i, key) == read(stores[instances[i].store], key)

\* store.write(key, value) on the i-th store created.
StoreWrite(i, key, value) ==
  /\ i \in DOMAIN instances
  /\ stores' = [stores EXCEPT ![instances[i].store] = write(@, key, value)]
  /\ UNCHANGED <<record, connection, inbound, promised, memory, instances,
                 storeInstance>>

\* store.remove(key)
StoreRemove(i, key) ==
  /\ i \in DOMAIN instances
  /\ stores' = [stores EXCEPT ![instances[i].store] = remove(@, key)]
  /\ UNCHANGED <<record, connection, inbound, promised, memory, instances,
                 storeInstance>>

\* store.flush()
StoreFlush(i) ==
  /\ i \in DOMAIN instances
  /\ stores' = [stores EXCEPT ![instances[i].store] = flush(@)]
  /\ UNCHANGED <<record, connection, inbound, promised, memory, instances,
                 storeInstance>>

NextStores ==
  \/ NewMemoryStore
  \/ NewSharedMemoryStore
  \/ \E i \in 1..MaxInstances, key \in Keys, value \in Values :
       StoreWrite(i, key, value)
  \/ \E i \in 1..MaxInstances, key \in Keys : StoreRemove(i, key)
  \/ \E i \in 1..MaxInstances : StoreFlush(i)

SpecStores == InitCache /\ [][NextStores]_vars

\* ------------------------------------------------------------- claims

\* C1 (as claimed): in every reachable state the number of requests written
\* and not yet answered, `requested`, is at most maxConcurrent.
C1_InFlightAtMostMax == requested <= maxConcurrent

\* What a callback receives for a line of the given content.
Delivered(args, content) ==
  IF content = "malformed" THEN InvalidResponse(Answer(args, content))
  ELSE Answer(args, content)

\* C2: when the server answers an in-flight request that carries a $req_id,
\* in any order, the step invokes exactly one callback: the one registered
\* for that $req_id, with that response; the response is the answer to the
\* callback's own request.
C2_IdCorrelation ==
  [][\A i \in DOMAIN wire, content \in {"ok", "error", "end"} :
       ServerRespond(i, content) =>
         /\ calls' = <<[cb |-> wire[i].callback,
                        resp |-> Answer(wire[i], content)]>>
         /\ calls'[1].resp.data = calls'[1].cb.id]_vars

\* C2 witness: request 2 has been answered before request 1, which is still
\* outstanding, and its callback got its own response.
C2_Witness ==
  /\ Len(calls) = 1
  /\ calls[1].cb.id = 2
  /\ calls[1].resp.req_id = 2
  /\ \E i \in DOMAIN wire : wire[i].id = 1 /\ wire[i].req_id = 1

\* C3 (as claimed): with only requests without $req_id, a non-push line of
\* any content invokes the callback of the oldest request the server has not
\* answered: the i-th line goes to the i-th request written.
C3_FifoAnyContent ==
  [][\A content \in Contents \cup {"error"} :
       ServerRespond(1, content) =>
         calls' = <<[cb |-> wire[1].callback,
                     resp |-> Delivered(wire[1], content)]>>]_vars

\* C3 (amended): the same for every line that carries no $req_id.
C3_FifoNoIdLines ==
  [][\A content \in (Contents \cup {"error"}) \ {"badid"} :
       ServerRespond(1, content) =>
         calls' = <<[cb |-> wire[1].callback,
                     resp |-> Delivered(wire[1], content)]>>]_vars

\* C3 witness: two lines have arrived and the second one has gone to the
\* second request.
C3_Witness ==
  /\ received = 2
  /\ invoked = {1, 2}
  /\ Len(calls) = 1
  /\ calls[1].cb.id = 2
  /\ calls[1].resp.data = 2

\* q holds the requests of part, next to one another and in their order.
HoldsInOrder(q, part) ==
  \E i \in 1..(Len(q) + 1) :
    /\ Len(q) >= i - 1 + Len(part)
    /\ SubSeq(q, i, i - 1 + Len(part)) = part

\* C4, the close: when the socket of a connected Connection closes, the
\* requests of requestBuffer other than auth/cached are put in front of
\* pendingBuffer in their order, auth/cached are dropped with the rest of
\* requestBuffer, requested is 0 and requestCallbacks is empty.
C4_Requeued ==
  SocketClose =>
    /\ pendingBuffer' = nonService(requestBuffer) \o pendingBuffer
    /\ requestBuffer' = <<>>
    /\ requested' = 0
    /\ requestCallbacks' = NoCallbacks

\* C4, the order: the step that releases pendingBuffer puts its requests in
\* requestBuffer in their order, and the ones it writes are the first ones.
C4_SameOrder ==
  (pendingBuffer # <<>> /\ pendingBuffer' = <<>>) =>
    /\ HoldsInOrder(requestBuffer', pendingBuffer)
    /\ \A i, j \in DOMAIN pendingBuffer :
         (i < j /\ pendingBuffer[j].id \in ids(wire')) =>
           pendingBuffer[i].id \in ids(wire')

\* C4, the authorization: after the socket has closed, a request that a close
\* moved to pendingBuffer is on the new socket only once a response to an
\* authorization request has been received from that socket.
C4_AfterAuthorization ==
  lastClose = "drop" =>
    \A i \in DOMAIN wire : wire[i].id \in moved => authorized

\* The requests that a close has moved to pendingBuffer and that wait there.
waiting == moved \cap ids(pendingBuffer)

\* C4, the resending: the requests that the close of the socket moved to
\* pendingBuffer are written again, none waits in pendingBuffer for ever.
C4_Resent ==
  (lastClose = "drop" /\ waiting # {}) ~> (waiting = {})

\* C4 without the resending: what holds of the close, of the order and of the
\* authorization.
C4_RequeuedInOrder ==
  [][C4_Requeued /\ C4_SameOrder /\ C4_AfterAuthorization']_vars

\* C4 (as claimed): an unexpected close requeues the requests of
\* requestBuffer other than auth/cached in front of pendingBuffer, and after
\* the reconnect they are written again, in the same order and only after
\* the new authorization response.
C4_RequeuedAndResent ==
  /\ C4_RequeuedInOrder
  /\ C4_Resent

\* The requests of q whose callback has not been invoked, service requests
\* apart.
Unanswered(q) ==
  {q[i].id : i \in {j \in DOMAIN q : ~isService(q[j]) /\ q[j].id \notin invoked}}

\* C5 (as claimed): when the socket closes after responses correlated by
\* $req_id, in any order, the requests moved to pendingBuffer are exactly the
\* non-service requests of the active queue whose callback has not been
\* invoked, written (wire) or not (requestBuffer).
C5_CloseRequeuesUnanswered ==
  [][SocketClose =>
       ids(pendingBuffer') \ ids(pendingBuffer) =
         Unanswered(wire) \cup Unanswered(requestBuffer)]_vars

\* The request the caller issues next, of kind k.
NextArgs(k) ==
  Request(nextReq, k[1], k[2], k[3],
          IF k[4] THEN UserCallback(nextReq) ELSE Undefined)

\* C6, what request() does: a request other than auth/cached without
\* credentials issued while ready is false is appended to pendingBuffer and
\* is not written; auth, cached and requests with credentials are
\* appended to requestBuffer whatever ready is.
C6_Routing ==
  \A k \in RequestKinds :
    ConnRequest(k[1], k[2], k[3], k[4]) =>
      IF k[1] \in {"auth", "cached"} \/ k[2]
      THEN /\ requestBuffer' = Append(requestBuffer, NextArgs(k))
           /\ pendingBuffer' = pendingBuffer
      ELSE ~ready =>
             /\ pendingBuffer' = Append(pendingBuffer, NextArgs(k))
             /\ requestBuffer' = requestBuffer
             /\ nextReq \notin ids(wire')

\* C6, a pending request is not on the wire, and only flushPendingBuffer()
\* takes a request out of pendingBuffer towards the socket.
C6_HeldBack ==
  /\ ids(pendingBuffer) \cap ids(wire) = {}
  /\ ~FlushPendingBuffer =>
       ids(pendingBuffer) \cap (ids(requestBuffer') \cup ids(wire')) = {}

\* What C6 says flushPendingBuffer() leaves behind.
C6_Flushed ==
  /\ ready'
  /\ pendingBuffer' = <<>>
  /\ requestBuffer' = requestBuffer \o pendingBuffer

\* C6 (as claimed): after any call of flushPendingBuffer() every pending
\* request is in requestBuffer in its original order and ready is true.
C6_PendingUntilFlush ==
  [][C6_Routing /\ C6_HeldBack /\ (FlushPendingBuffer => C6_Flushed)]_vars

\* C6 (amended): the same for a call of flushPendingBuffer() on a connected
\* Connection; on a disconnected one the call changes nothing.
C6_PendingUntilFlushConnected ==
  [][/\ C6_Routing
     /\ C6_HeldBack
     /\ FlushPendingBuffer =>
          IF connected THEN C6_Flushed
          ELSE UNCHANGED <<ready, pendingBuffer, requestBuffer, wire>>]_vars

\* C6 witness: a request that request() held in pendingBuffer has been
\* released and written to the socket.
C6_Witness ==
  /\ ready
  /\ pendingBuffer = <<>>
  /\ ids(wire) \cap held # {}

\* C7 (as claimed): when at least maxConcurrent requests are queued as the
\* socket connects, the flush on connect writes exactly maxConcurrent of
\* them, and before a response arrives no more than maxConcurrent are
\* written.
C7_ExactlyMaxOnConnect ==
  [][/\ (FlushRequestBuffer /\ Len(requestBuffer) >= maxConcurrent) =>
          Len(wire') = maxConcurrent
     /\ received' = 0 => Len(wire') <= maxConcurrent]_vars

\* What C8 says of a step that applies the invalidation set of r: for each
\* collection c that r names with a version different from the stored one
\* (or with no version stored), cache.get of every entry that was indexed
\* under c returns null, Client.get does not answer it from the cache, and
\* getVersions()[c] is the version r gives.
C8_Purged(r) ==
  \A c \in (IF r.cached.defined THEN DOMAIN r.cached.of ELSE {}) :
    (~has(versions, c) \/ versions[c] # r.cached.of[c]) =>
      /\ \A l \in Lookups :
           (has(indexes, c) /\ getKey(l[1], l[2]) \in Range(indexes[c])) =>
             /\ getResult(St', l[1], l[2]) = Miss
             /\ ~answersFromCache(St', l[1], l[2])
      /\ has(getVersions(St'), c)
      /\ getVersions(St')[c] = r.cached.of[c]

\* C8: after cache.clear(response) or Client.onPush(push) has applied an
\* invalidation set that names collection c with a version different from
\* the stored one, cache.get returns null for every entry previously indexed
\* under c, so that Client.get sends the request to the server, and
\* getVersions()[c] is the new version.
C8_InvalidationPurges ==
  [][\A r \in Invalidations :
       (CacheClear(r) \/ ClientOnPush(r)) => C8_Purged(r)]_vars

\* C8 witness: an invalidation has removed the two entries indexed under a
\* collection, whose index is now empty and whose version is the new one.
C8_Witness ==
  /\ calls = <<>>
  /\ Cardinality(purged) = 2
  /\ purged \cap DOMAIN results = {}
  /\ \E c \in DOMAIN indexes :
       /\ indexes[c] = <<>>
       /\ has(versions, c)
       /\ versions[c] = MaxVersion

\* A response declares a collection, through $collection or $expanded, with
\* a version in $cached.
declaresVersion(r) ==
  /\ r.cached.defined
  /\ \E c \in Range(resultCollections(r)) : has(r.cached.of, c)

\* $data of a response as put() stores it: null when the response has none.
stored(r) == IF r.data = NoData THEN Null ELSE r.data

\* C9 (as claimed): for any url, data, prior cache state and response that
\* declares at least one collection with a version in $cached,
\* cache.put(url, data, response) followed immediately by
\* cache.get(url, data) returns a result with $cached = true and $data equal
\* to the response's $data.
C9_PutThenGet ==
  [][\A l \in Lookups, r \in Results :
       (CachePut(l[1], l[2], r) /\ declaresVersion(r)) =>
         /\ getResult(St', l[1], l[2]).cached = TRUE
         /\ getResult(St', l[1], l[2]).data = stored(r)]_vars

\* C10 (as claimed): after Client.respond has processed a successful
\* response to a get that declares $collection c and $cached {c: v},
\* cache.get(url, data) returns the response's $data and getVersions()[c] is
\* v, whatever version of c was stored before.
C10_RespondStores ==
  [][\A l \in Lookups, r \in Answers :
       ClientRespond("get", l[1], l[2], r) =>
         /\ getResult(St', l[1], l[2]).cached = TRUE
         /\ getResult(St', l[1], l[2]).data = stored(r)
         /\ has(getVersions(St'), r.collection)
         /\ getVersions(St')[r.collection] = r.cached.of[r.collection]]_vars

\* The calls that give response to the callback of each request of q.
Failed(q, response) ==
  [i \in DOMAIN q |-> [cb |-> q[i].callback, resp |-> response]]

\* C18: when the final connect timeout fires while the connection is not
\* connected, the callback of every request of requestBuffer and of
\* pendingBuffer is invoked exactly once with {$status: 500, $error: the
\* timeout message}, both buffers become empty, requested becomes 0 and a new
\* connection attempt is started; while the connection is connected the
\* timeout is not armed and its handler changes nothing.
C18_TimeoutFailsAll ==
  [][/\ connected => ~connectingTimeout /\ connectTimeout(St) = St
     /\ ConnectTimeout =>
          /\ ~connected
          /\ calls' = Failed(requestBuffer \o pendingBuffer, TimeoutError)
          /\ requestBuffer' = <<>>
          /\ pendingBuffer' = <<>>
          /\ requested' = 0
          /\ stream' = nextSocket
          /\ nextSocket' = nextSocket + 1
          /\ ~connected'
          /\ connectingTimeout']_vars

\* C18 witness: the timeout has just failed a request that was written to a
\* socket and a request that was waiting, and a new socket is connecting.
C18_Witness ==
  /\ Len(calls) = 2
  /\ \A i \in DOMAIN calls : calls[i].resp = TimeoutError
  /\ calls[1].cb.id # calls[2].cb.id
  /\ requestBuffer = <<>>
  /\ pendingBuffer = <<>>
  /\ requested = 0
  /\ stream > 1
  /\ ~connected

\* A line that is not valid JSON, or is no JSON object, arrives.
InvalidLine ==
  \/ \E i \in DOMAIN wire : ServerRespond(i, "malformed")
  \/ \E line \in InvalidLines : ServerStray(line)

\* What C19 says of such a line, given the text it quotes.
C19_Effect(data) ==
  /\ requestBuffer # <<>> =>
        /\ requestBuffer' = Tail(requestBuffer)
        /\ calls' = <<[cb |-> Head(requestBuffer).callback,
                       resp |-> [ProtocolError EXCEPT !.raw = data]]>>
  /\ emitted' = <<"error.protocol">>
  /\ requested' = requested - 1
  /\ Len(calls') <= 1

\* C19 (as claimed): when a received line is not valid JSON or is no JSON
\* object, the request at the head of requestBuffer is dequeued, its callback
\* is invoked exactly once with a $status 500 error that quotes the line,
\* `error.protocol` is emitted, requested decreases by one and no other
\* callback is invoked.
C19_InvalidLine ==
  [][/\ \A i \in DOMAIN wire :
          ServerRespond(i, "malformed") => C19_Effect(wire[i].id)
     /\ \A line \in InvalidLines :
          ServerStray(line) => C19_Effect(line.data)]_vars

\* C19 holds of the lines that arrive while requestBuffer holds a request.
C19_InvalidLineWithHead ==
  [][/\ \A i \in DOMAIN wire :
          ServerRespond(i, "malformed") /\ requestBuffer # <<>> =>
            C19_Effect(wire[i].id)
     /\ \A line \in InvalidLines :
          ServerStray(line) /\ requestBuffer # <<>> =>
            C19_Effect(line.data)]_vars

\* C20: a frame with $push invokes options.onPush exactly once with the
\* frame and leaves requestBuffer, pendingBuffer, requested and
\* requestCallbacks unchanged; without options.onPush the frame changes
\* nothing; a step that receives no such frame does not invoke options.onPush.
C20_PushOnlyToHandler ==
  [][/\ \A line \in Pushes :
          ServerPush(line) =>
            /\ calls' = IF onPushSet
                        THEN <<[cb |-> PushHandler, resp |-> line]>>
                        ELSE <<>>
            /\ emitted' = <<>>
            /\ UNCHANGED <<requestBuffer, pendingBuffer, requested,
                           requestCallbacks, connected, ready, stream, wire>>
     /\ (\E i \in DOMAIN calls' : calls'[i].cb = PushHandler) =>
          \E line \in Pushes : ServerPush(line)]_vars

\* C20 witness: a push frame that carries the $req_id of a request in flight
\* has gone to options.onPush, and the request is still in flight.
C20_Witness ==
  /\ calls = <<[cb |-> PushHandler,
                resp |-> Line(TRUE, TRUE, 1, "", FALSE, 1)]>>
  /\ 1 \in DOMAIN requestCallbacks
  /\ requested = 1
  /\ Len(requestBuffer) = 1

\* The requests and gets that wait in the Client and its Connection.
Waiting ==
  Len(requestBuffer) + Len(pendingBuffer) + Len(requestsPendingAuth.of)

\* The i-th callback invocation of the step gave a result of the cache.
FromCache(i) == calls'[i].resp.cached = CachedTrue

\* C11 (as claimed): a get is answered from the cache only when the
\* authorization and the version sync have completed on the current
\* connection (authed and sentVersions are true, a response to an
\* authorization has been received from the current socket and sentVersions
\* was set while it was up) and the call's data has no $nocache; a get that
\* is not answered from the cache is queued for the authorization or for the
\* server.
C11_CacheOnlySynced ==
  [][/\ \A i \in DOMAIN calls' :
          FromCache(i) =>
            /\ authed' /\ sentVersions'
            /\ authorized' /\ synced'
            /\ isRequestCacheable(issued'[calls'[i].cb.id].data)
     /\ \A data \in {NoArg, NoCache} :
          ClientGet(SomeUrl, data) /\ calls' = <<>> =>
            Waiting' = Waiting + 1]_vars

\* C11 holds of the two flags alone, whatever connection set them.
C11_CacheOnlyFlagged ==
  [][/\ \A i \in DOMAIN calls' :
          FromCache(i) =>
            /\ authed' /\ sentVersions'
            /\ isRequestCacheable(issued'[calls'[i].cb.id].data)
     /\ \A data \in {NoArg, NoCache} :
          ClientGet(SomeUrl, data) /\ calls' = <<>> =>
            Waiting' = Waiting + 1]_vars

\* C12: a get of the caller that is answered from the cache gives the stored
\* $data to the callback and resolves the returned promise with it, and
\* leaves requestBuffer, pendingBuffer, requested, requestCallbacks and what
\* has been written to the socket unchanged.
C12_CacheHitWritesNothing ==
  [][\A data \in {NoArg, NoCache} :
       ClientGet(SomeUrl, data) /\ calls' # <<>> =>
         /\ calls' = <<[cb |-> [kind |-> "caller", id |-> nextReq],
                        resp |-> CacheAnswer(results[getKey(SomeUrl, data)])]>>
         /\ nextReq \in DOMAIN promises'
         /\ promises'[nextReq] = Resolved(results[getKey(SomeUrl, data)].data)
         /\ UNCHANGED <<requestBuffer, pendingBuffer, requested,
                        requestCallbacks, wire, requestsPendingAuth,
                        results, versions, indexes>>]_vars

\* C12 witness: the caller's last call, a get, has just been answered from
\* the cache with $data 1 or more, its promise is resolved with it, and
\* nothing waits or is on the wire.
C12_Witness ==
  /\ Len(calls) = 1
  /\ calls[1].cb.id = nextReq - 1
  /\ calls[1].resp.cached = CachedTrue
  /\ calls[1].resp.data >= 1
  /\ issued[nextReq - 1].wraps = <<>>
  /\ promises[nextReq - 1] = Resolved(calls[1].resp.data)
  /\ requestBuffer = <<>>
  /\ pendingBuffer = <<>>
  /\ wire = <<>>

\* C14 (as claimed): at most one `cached` request is written to a socket,
\* in whatever order the server answers the authorization and the requests
\* that carry credentials.
C14_OneCachedRequest == cachedWritten <= 1

\* What the promise of a call owes to the response its callback received.
Expected(response) ==
  IF response.error # "" THEN Rejected(response.error, response.status)
  ELSE Resolved(response.data)

\* C15 (as claimed): the promise of every call of request and get, deferred
\* or not, settles in the step in which the callback of the call receives
\* the response, and not before: it rejects with an Error whose message is
\* $error and whose status is $status when the response has $error, and
\* resolves with $data otherwise.
C15_PromiseAsResponse ==
  [][\A n \in DOMAIN issued' :
       /\ (n \in DOMAIN promises' /\ n \notin DOMAIN promises) =>
            \E i \in DOMAIN calls' :
              /\ calls'[i].cb.id = n
              /\ promises'[n] = Expected(calls'[i].resp)
       /\ (\E i \in DOMAIN calls' : calls'[i].cb.id = n) =>
            n \in DOMAIN promises']_vars

\* The server answers the i-th request on the wire, a request of the caller,
\* with $error (and $cached, for a post).
ErrorResponse(i, content) ==
  /\ content \in {"error", "errorcached"} \cap GetContents(wire[i])
  /\ Respond(i, content)

\* What C16 says of such a response.
C16_Effect(i, content) ==
  /\ calls' # <<>>
  /\ calls'[1] = [cb |-> [kind |-> "caller", id |-> wire[i].callback.id],
                  resp |-> Answer(wire[i], content)]
  /\ \A k \in DOMAIN calls' : k > 1 => calls'[k].resp.error = ""
  /\ UNCHANGED <<results, versions, indexes>>
  /\ UNCHANGED <<connected, ready, stream, pendingBuffer>>
  /\ ids(requestBuffer') \subseteq ids(requestBuffer)

\* C16 (as claimed): a response with $error is given as the error to the
\* caller of that request and to no other, leaves the cache as it is even
\* when it carries $cached, and leaves connected, ready and the requests that
\* wait as they are, without a reconnect.
C16_ErrorOnlyToCaller ==
  [][\A i \in DOMAIN wire, content \in {"error", "errorcached"} :
       ErrorResponse(i, content) => C16_Effect(i, content)]_vars

\* The error part of C16 alone: the caller gets the error, the cache is as it
\* was, and there is no reconnect.
C16_ErrorDelivered ==
  [][\A i \in DOMAIN wire, content \in {"error", "errorcached"} :
       ErrorResponse(i, content) =>
         /\ calls' # <<>>
         /\ calls'[1] = [cb |-> [kind |-> "caller", id |-> wire[i].callback.id],
                         resp |-> Answer(wire[i], content)]
         /\ UNCHANGED <<results, versions, indexes, connected, stream>>]_vars

\* The last part of C16: respond() called without a response gives the
\* error 'Empty response from server' with status 500 to the callback.
C16_EmptyResponse ==
  [][ClientRespond("post", SomeUrl, NoArg, NoResponse) =>
       /\ calls' = <<[cb |-> [kind |-> "caller", id |-> 1],
                      resp |-> EmptyResponse]>>
       /\ UNCHANGED <<results, versions, indexes>>]_vars

\* A get that was made while the Client was not authed.
Deferred(n) ==
  /\ issued[n].wraps # <<>>
  /\ issued[n].wraps[1] \in {"first", "queued"}

\* C13 (as claimed): the promise of every get that was made while the Client
\* was not authed eventually settles, whatever the server answers to the get
\* that started the authorization.
C13_DeferredGetsSettle ==
  <>[](\A n \in DOMAIN issued : Deferred(n) => n \in DOMAIN promises)

\* The order part of C13: the deferred gets are called again once each, in
\* the order the calls were made.
C13_ReplayedOnceInOrder ==
  \A i, j \in DOMAIN replayed : i < j => replayed[i] < replayed[j]

\* C17 (as claimed): once the request of a call was made again for a response
\* with $auth and $end, the callback and the promise of the call eventually
\* receive the outcome.
C17_ResubmittedSettles ==
  <>[](\A n \in DOMAIN issued :
         issued[n].again => n \in invoked /\ n \in DOMAIN promises)

\* The first part of C17: a response with $auth and $end starts no nonce
\* authorization, and leaves the request of the call with its callback in
\* requestBuffer or pendingBuffer, to be written to the new socket.
C17_Resubmitted ==
  [][\A i \in DOMAIN wire :
       (wire[i].callback.kind = "request" /\ Respond(i, "authend")) =>
         /\ stream' # stream
         /\ \A r \in Range(requestBuffer' \o pendingBuffer') :
              ~(r.method = "auth" /\ r.req_id = NoId)
         /\ \E r \in Range(requestBuffer' \o pendingBuffer') :
              /\ r.id >= nextReq
              /\ r.method = wire[i].method
              /\ r.callback = wire[i].callback]_vars

\* The requests the step writes to the socket.
Written ==
  IF stream' # stream THEN Range(wire')
  ELSE {wire'[i] : i \in {j \in DOMAIN wire' : wire'[j] \notin Range(wire)}}

C29_RequestConnects ==
  [][\A k \in TimerKinds :
       (ConnRequest(k[1], k[2], k[3], k[4]) /\ ~connected
          /\ stream = NoStream) =>
         stream' # NoStream]_vars

\* The state C29 is about, once its timers have fired: a request is queued,
\* there is no socket and no timeout is pending.
C29_Stranded ==
  /\ ~connected
  /\ stream = NoStream
  /\ isBufferNotEmpty(St)
  /\ retryTimers = 0
  /\ ~connectingTimeout

\* C30 (as claimed): authed is true only while the Connection is connected
\* and a response to an authorization (an `auth` request or a request with
\* $client and $key) has been received from the current socket.
C30_AuthedOnCurrentConnection == authed => (connected /\ authorized)

\* C28 (as claimed): when the server's line for a written request has been
\* processed, whatever the line is, and the connection is still up, the
\* oldest request has left requestBuffer and the next request that was not
\* written yet has been written, provided that fewer than maxConcurrent
\* requests remain in flight.
C28_ResponseWritesNext ==
  [][\A i \in DOMAIN wire, content \in Contents :
       (/\ ServerRespond(i, content)
        /\ connected'
        /\ Len(requestBuffer) > requested
        /\ requested - 1 < maxConcurrent)
       => /\ requestBuffer' = Tail(requestBuffer)
          /\ requestBuffer[requested + 1] \in Range(wire')]_vars

\* A request of requestBuffer waits unwritten on a connected socket that has
\* nothing in flight: no response will come to write it.
C28_Unwritten ==
  /\ connected
  /\ stream # NoStream
  /\ requested = 0
  /\ wire = <<>>
  /\ requestBuffer # <<>>
  /\ received > 0

\* C22: whatever is put, every collection's index lists at most indexLimit
\* keys, each once; and with indexLimit = 1 a step that changes the index of
\* a collection without emptying it leaves exactly one key there, a key that
\* was not listed before: of two distinct keys put into one collection only
\* the later one is listed.
C22_IndexWithinLimit ==
  /\ [](\A c \in DOMAIN indexes :
          /\ Len(indexes[c]) <= indexLimit
          /\ Cardinality(Range(indexes[c])) = Len(indexes[c]))
  /\ [][indexLimit = 1 =>
          \A c \in DOMAIN indexes' :
            LET before == IF has(indexes, c) THEN indexes[c] ELSE <<>>
            IN (indexes'[c] # before /\ indexes'[c] # <<>>)
               => /\ Len(indexes'[c]) = 1
                  /\ indexes'[c][1] \notin Range(before)]_vars

\* With indexLimit = 1, the second key put into a collection is the one its
\* index lists, and the first one has been ejected.
C22_Witness ==
  /\ indexLimit = 1
  /\ getKey(<<"a">>, NoArg) \in purged
  /\ \E c \in DOMAIN indexes : indexes[c] = <<getKey(<<"a">>, "q")>>

\* The lines of a text: its pieces that a newline ends, found by the places
\* of the newlines.
Newlines(text) == {i \in DOMAIN text : text[i] = NL}
Segments(text) ==
  LET start(i) ==
        IF \E j \in Newlines(text) : j < i
        THEN 1 + CHOOSE j \in Newlines(text) :
                   j < i /\ \A k \in Newlines(text) : k < i => k <= j
        ELSE 1
      nth(n) == CHOOSE i \in Newlines(text) :
                  Cardinality({j \in Newlines(text) : j <= i}) = n
  IN [n \in 1..Cardinality(Newlines(text)) |->
        SubSeq(text, start(nth(n)), nth(n) - 1)]

\* What follows the last newline of a text.
Unended(text) ==
  LET last == IF Newlines(text) = {} THEN 0
              ELSE CHOOSE i \in Newlines(text) : \A j \in Newlines(text) : j <= i
  IN SubSeq(text, last + 1, Len(text))

\* C21: however the socket cuts the inbound stream into chunks, the texts
\* receive() has handed to receiveResponse are the lines of the stream
\* received so far, in order and once each, and this.buffer holds what
\* follows the last newline.
C21_LinesOfStream ==
  /\ lines = Segments(join(chunks))
  /\ join(buffer) = Unended(join(chunks))

\* A line that arrived in three chunks, its newline last, has been handed
\* over whole.
C21_Witness ==
  /\ chunks = <<<<"x">>, <<"x">>, <<NL>>>>
  /\ lines = <<<<"x", "x">>>>
  /\ buffer = <<>>

\* C23 (as claimed): client.close() called on a Client that holds a
\* Connection, in any state, leaves authed and sentVersions false and the
\* connection reference cleared, and the Connection it closed is not
\* connected, has opened no new socket and has scheduled no reconnect;
\* client.close() called again changes nothing.
C23_CloseDisconnects ==
  [][ClientClose =>
       IF connection
       THEN /\ ~authed' /\ ~sentVersions' /\ ~connection'
            /\ ~connected'
            /\ nextSocket' = nextSocket
            /\ retryTimers' <= retryTimers
       ELSE UNCHANGED vars]_vars

\* The requests of the Connection that were made for call n.
RequestsOf(n) ==
  {args \in Range(requestBuffer) \cup Range(pendingBuffer) \cup Range(wire) :
     args.callback.kind = "request" /\ args.callback.id = n}

C25_Isolated ==
  \A params \in Params, what \in Stored :
    has(memory, getPath(params, argsOf(what)))
    => memory[getPath(params, argsOf(what))].by = params

\* Stores i and j are one store: the same instance, or two 'shared-memory'
\* instances.
SameStore(i, j) ==
  \/ i = j
  \/ instances[i].kind = "shared-memory" /\ instances[j].kind = "shared-memory"

\* What every store reads after a step, given what the stores that are one
\* with store i read for key k and that the others read what they did.
ReadsAfter(i, changed(_, _)) ==
  \A j \in DOMAIN instances, k \in Keys :
    read(stores'[instances[j].store], k) =
      IF SameStore(i, j) THEN changed(k, StoreRead(j, k)) ELSE StoreRead(j, k)

C31_IndexedIsStored ==
  \A c \in DOMAIN indexes : \A key \in Range(indexes[c]) : has(results, key)

\* C32 (as claimed): in a step that adds a key to the index of a collection
\* which lists indexLimit keys, the key that leaves the index, and whose
\* stored result is removed, is the first one listed, the oldest; the other
\* keys stay, followed by the new one.
C32_OldestEvicted ==
  [][\A c \in DOMAIN indexes :
       (/\ Len(indexes[c]) = indexLimit
        /\ has(indexes', c)
        /\ Range(indexes'[c]) \ Range(indexes[c]) # {})
       => /\ Head(indexes[c]) \notin Range(indexes'[c])
          /\ Head(indexes[c]) \in purged'
          /\ SubSeq(indexes'[c], 1, indexLimit - 1) = Tail(indexes[c])]_vars

\* The collections a response makes invalid according to the specification:
\* the ones it names with a version that is not the stored one, and with
\* admin.settings among them every collection that has a version, before or
\* after, and whose name ends in .settings.
Invalidated(result) ==
  LET cached == IF result.cached.defined THEN result.cached.of
                ELSE [c \in {} |-> 0]
      changed == {c \in DOMAIN cached :
                    ~has(versions, c) \/ cached[c] # versions[c]}
  IN changed \cup
     (IF "admin.settings" \in changed
      THEN {c \in DOMAIN versions \cup DOMAIN cached : endsInSettings(c)}
      ELSE {})

\* The collections whose index lists the key.
IndexedUnder(key) == {c \in DOMAIN indexes : key \in Range(indexes[c])}

\* What cache.get returns in the next state.
getResultAfter(url, data) ==
  getResult([results |-> results', indexes |-> indexes'], url, data)

C34_StalePurged ==
  [][\A l \in Lookups :
       (/\ CacheGet(l[1], l[2])
        /\ has(results, getKey(l[1], l[2]))
        /\ results[getKey(l[1], l[2])].collection # NoCollection
        /\ ~found(St, getKey(l[1], l[2])))
       => /\ ~has(results', getKey(l[1], l[2]))
          /\ \A c \in Range(resultCollections(results[getKey(l[1], l[2])])) :
               has(indexes', c) => getKey(l[1], l[2]) \notin Range(indexes'[c])]_vars

\* C35: when the socket closes and the Connection emits 'close', the Client
\* is left with authed and sentVersions false, and the CacheStore holds what
\* it held: the versions, and what cache.get returns for every url and data,
\* are the same after the step as before it.
C35_CloseKeepsStore ==
  [][SocketClose =>
       /\ "close" \in Range(emitted')
       /\ ~authed' /\ ~sentVersions'
       /\ versions' = versions
       /\ \A l \in Lookups \cup {<<SomeUrl, NoCache>>} :
            getResultAfter(l[1], l[2]) = getResult(St, l[1], l[2])
       /\ UNCHANGED <<results, indexes>>]_vars

\* The socket of a Client that was authed, with versions sent and a result
\* in its cache, has just closed.
C35_Witness ==
  /\ "close" \in Range(emitted)
  /\ lastClose = "drop"
  /\ ~authed /\ ~sentVersions
  /\ synced
  /\ DOMAIN versions # {}
  /\ getResult(St, SomeUrl, NoArg) # Miss

\* C36: when cache.clear is given a version of admin.settings that is not
\* the stored one, every collection that has a stored version and whose
\* name ends in .settings has an empty index afterwards, the results its
\* index listed are removed and cache.get misses them; a collection whose
\* name does not end in .settings and that the response does not name keeps
\* its version and its index, and the entries indexed under it alone are
\* returned by cache.get as before.
C36_SettingsRule ==
  [][\A result \in SettingsInvalidations :
       (/\ <<results, versions, indexes>>' # <<results, versions, indexes>>
        /\ CacheClear(result)
        /\ has(result.cached.of, "admin.settings")
        /\ (~has(versions, "admin.settings")
            \/ versions["admin.settings"] # result.cached.of["admin.settings"]))
       => /\ \A c \in DOMAIN versions' :
               (endsInSettings(c) /\ has(indexes, c))
               => /\ indexes'[c] = <<>>
                  /\ \A key \in Range(indexes[c]) : ~has(results', key)
          /\ \A l \in Lookups :
               (\E c \in IndexedUnder(getKey(l[1], l[2])) :
                  endsInSettings(c) /\ has(versions', c))
               => getResultAfter(l[1], l[2]) = Miss
          /\ \A c \in (DOMAIN versions \cup DOMAIN indexes) :
               ~endsInSettings(c)
               => /\ has(versions, c) => versions'[c] = versions[c]
                  /\ has(indexes, c) => indexes'[c] = indexes[c]
          /\ \A l \in Lookups :
               (/\ getResult(St, l[1], l[2]) # Miss
                /\ \A c \in IndexedUnder(getKey(l[1], l[2])) : ~endsInSettings(c))
               => getResultAfter(l[1], l[2]) = getResult(St, l[1], l[2])]_vars

\* A new version of admin.settings has emptied the index of api.settings,
\* and the entry of products is still returned by cache.get.
C36_Witness ==
  /\ purged # {}
  /\ has(versions, "admin.settings") /\ versions["admin.settings"] = 2
  /\ has(versions, "api.settings")
  /\ has(indexes, "api.settings") /\ indexes["api.settings"] = <<>>
  /\ \E l \in Lookups :
       /\ getResult(St, l[1], l[2]) # Miss
       /\ getResult(St, l[1], l[2]).collection = "products"

\* C37 (as claimed): the number of requests in flight is never negative and
\* never more than the length of requestBuffer.
C37_InFlightWithinQueue ==
  /\ 0 <= requested
  /\ requested <= Len(requestBuffer)

\* C38 (as claimed): when the socket has closed, this.buffer holds nothing
\* of what the socket delivered.
C38_CloseEmptiesBuffer == [][SocketClose => buffer' = <<>>]_vars

\* In a scenario whose server is out of reach when a timer reconnects, the
\* one socket that can still connect is the current one.
OnlyCurrentConnecting ==
  connecting = IF stream # NoStream /\ ~connected THEN {stream} ELSE {}

\* C39 (as claimed): no request is written twice to a socket: the requests
\* written to the current socket that the server has not answered are
\* different requests.
C39_WrittenOnce ==
  \A i, j \in DOMAIN wire : wire[i].id = wire[j].id => i = j

\* C40 (as claimed): when the server answers the authorization request with
\* a response that carries $error, or the final timeout gives the
\* authorization callback its synthesized error, the Client is not authed
\* afterwards, the Connection is not ready and every request that waited in
\* pendingBuffer still waits there.
C40_ErrorDoesNotAuthorize ==
  [][/\ \A i \in DOMAIN wire :
          (wire[i].method = "auth" /\ ~authed /\ ServerReplies(i, "error")) =>
            /\ ~authed'
            /\ ~ready'
            /\ ids(pendingBuffer) \subseteq ids(pendingBuffer')
     /\ (/\ ~connected
         /\ ~authed
         /\ \E i \in DOMAIN requestBuffer : requestBuffer[i].method = "auth"
         /\ ConnectTimer) => ~authed' /\ ~ready']_vars

====
